---- MODULE Spec2Model ----
(***************************************************************************)
(* Verification model of the form-validation error mapping of              *)
(* cloudflare-react-router-bui-saas: parseValueWithSchema (form3.tsx), the *)
(* route actions that turn a failed schema parse into an error map, and    *)
(* the client effect that applies a server error map to the form state,    *)
(* and the paginated listing loaders of the admin pages.                   *)
(***************************************************************************)
EXTENDS Integers, Sequences, FiniteSets, TLC

VARIABLES
    value,        \* the form value handed to parseValueWithSchema
    validation,   \* what schema["~standard"].validate(value) returned
    outcome,      \* how the call ended: not called, thrown, undefined, or an object
    page,         \* the route whose page is open in the browser
    formData,     \* Object.fromEntries(await request.formData()) of the last request
    response,     \* how the route action ended the last request
    calls,        \* the external-service and repository calls of the last request
    submissions,  \* the number of requests made so far
    actionData,   \* the action result the page's form component holds
                  \* (its actionData prop, or the data of the ban dialog's fetcher)
    form,         \* the state of the page's form: the error maps set on it
    effectRuns,   \* how often the component's effect ran with this action data
    banDialog,    \* the banDialog state of the users page
    attempts,     \* the action results the mounted component has received, in order
    route,        \* the parent route a request passes through: "admin" or "organization"
    method,       \* the method of that request
    params,       \* its route params
    context,      \* the RequestContext held by the request's context; for a
                  \* login request, the env it was handled with
    stage,        \* how far the request has come: middleware, action, childLoader,
                  \* loader, done
    loaderData,   \* what the loader of the child route returned
    touched,      \* the fields whose meta has isTouched
    routeResult,  \* how the request ended, once it has
    requests,     \* the submissions of the invite form in flight, each with how
                  \* far its action has come
    searchParams  \* the query of the listing request: the entries of
                  \* url.searchParams, in order

parseVars == <<value, validation, outcome>>

serverVars == <<page, formData, response, calls, submissions>>

clientVars == <<actionData, form, effectRuns, banDialog, attempts, touched>>

overlapVars == <<requests>>

listingVars == <<searchParams>>
routeVars == <<route, method, params, context, stage, loaderData, routeResult>>

vars == <<value, validation, outcome, page, formData, response, calls, submissions,
          actionData, form, effectRuns, banDialog, attempts, touched,
          route, method, params, context, stage, loaderData, routeResult,
          requests, searchParams>>

\* no request through a parent route is being followed
NoRoute ==
    /\ route = "none"
    /\ method = "none"
    /\ params = <<>>
    /\ context = [t |-> "undefined"]
    /\ stage = "none"
    /\ loaderData = [kind |-> "none"]
    /\ routeResult = [kind |-> "none"]

(***************************************************************************)
(* Bounds of the explored inputs.                                          *)
(***************************************************************************)
\* the size of the largest validation result explored: the number of its issues
\* plus the number of segments of all their paths (4 admits one issue with a
\* path of three segments, two issues with two segments between them, ...)
MaxResultSize == 4

(***************************************************************************)
(* JavaScript values.  A value is a tagged record; an object carries a     *)
(* function from its own property names to values, an array a sequence     *)
(* (index 0 of the array is element 1 of the sequence).                    *)
(***************************************************************************)
Undefined == [t |-> "undefined"]
Null == [t |-> "null"]
Str(s) == [t |-> "string", s |-> s]
Obj(props) == [t |-> "object", props |-> props]
Arr(items) == [t |-> "array", items |-> items]

\* the validated values explored
Values ==
    { Obj("user" :> Obj("name" :> Str("x"))),            \* {user:{name:"x"}}
      Obj("users" :> Arr(<<Obj("name" :> Str("x"))>>)),  \* {users:[{name:"x"}]}
      Obj("user" :> Null),                               \* {user:null}
      Arr(<<Obj("name" :> Str("x"))>>),                  \* [{name:"x"}]
      Obj("0" :> Obj("name" :> Str("x"))) }              \* {"0":{name:"x"}}

(***************************************************************************)
(* Path segments.  A segment is a property key (a string or a number) or   *)
(* an object exposing a key.  s is String(key); t is typeof key.           *)
(***************************************************************************)
StrKey(s) == [wrapped |-> FALSE, t |-> "string", s |-> s]
NumKey(n) == [wrapped |-> FALSE, t |-> "number", s |-> ToString(n)]
KeyObj(seg) == [wrapped |-> TRUE, t |-> seg.t, s |-> seg.s]

Segments ==
    { StrKey("user"), StrKey("users"), StrKey("name"), StrKey(""), StrKey("0"),
      NumKey(0), KeyObj(StrKey("name")) }

\* NaN, the result of Number() on a string that is no numeric literal
NaN == -1

\* Number(s) of a string: "" converts to 0, a decimal literal to its value,
\* anything else to NaN
ToNumber(s) ==
    CASE s = "" -> 0
      [] s = "0" -> 0
      [] s = "1" -> 1
      [] s = "6" -> 6
      [] s = "7" -> 7
      [] s = "13" -> 13
      [] OTHER -> NaN

\* Number(segment): a number key converts to itself, a string key as above
Number(segment) == ToNumber(segment.s)

\* typeof v === "object" && v !== null
IsObjectLike(v) == v.t \in {"object", "array"}

\* Array.isArray(v)
IsArray(v) == v.t = "array"

\* array[n]: the element, or undefined out of range
ArrayGet(v, n) ==
    IF n + 1 \in DOMAIN v.items THEN v.items[n + 1] ELSE Undefined

\* (v as Record<string, unknown>)[String(segment)] on an object or an array that
\* is read with a non-numeric name
PropertyGet(v, name) ==
    IF v.t = "object" /\ name \in DOMAIN v.props THEN v.props[name] ELSE Undefined

\* typeof pathSegment === "object" ? pathSegment.key : pathSegment
SegmentOf(pathSegment) == [t |-> pathSegment.t, s |-> pathSegment.s]

(***************************************************************************)
(* One turn of the inner loop of parseValueWithSchema: acc holds the path  *)
(* built so far and the value reached so far.                              *)
(***************************************************************************)
WalkSegmentNoArrayCheck(acc, pathSegment) ==
    LET segment == SegmentOf(pathSegment)
    IN  [ path |-> acc.path \o
                     (IF Len(acc.path) > 0 THEN "." \o segment.s ELSE segment.s),
          currentValue |-> IF IsObjectLike(acc.currentValue)
                           THEN PropertyGet(acc.currentValue, segment.s)
                           ELSE Undefined ]

WalkSegment(acc, pathSegment) ==
    LET segment == SegmentOf(pathSegment)
        segmentAsNumber == Number(segment)
    IN  IF IsArray(acc.currentValue) /\ segmentAsNumber # NaN
        THEN [ path |-> acc.path \o "[" \o ToString(segmentAsNumber) \o "]",
               currentValue |-> ArrayGet(acc.currentValue, segmentAsNumber) ]
        ELSE [ path |-> acc.path \o
                          (IF Len(acc.path) > 0 THEN "." \o segment.s ELSE segment.s),
               currentValue |-> IF IsObjectLike(acc.currentValue)
                                THEN PropertyGet(acc.currentValue, segment.s)
                                ELSE Undefined ]

RECURSIVE WalkPath(_, _)
WalkPath(acc, issuePath) ==
    IF issuePath = <<>> THEN acc
    ELSE WalkPath(WalkSegment(acc, Head(issuePath)), Tail(issuePath))

\* issue.path ?? []
IssuePathOf(issue) == IF issue.hasPath THEN issue.path ELSE <<>>

\* the string key built for one issue
NormalizedPath(v, issue) ==
    WalkPath([path |-> "", currentValue |-> v], IssuePathOf(issue)).path

\* errorMap[path] ??= []; errorMap[path].push(issue)   (issues are held by
\* reference: i is the position of the issue in result.issues)
PushIssue(errorMap, path, i) ==
    [k \in DOMAIN errorMap \cup {path} |->
        IF k = path
        THEN Append(IF path \in DOMAIN errorMap THEN errorMap[path] ELSE <<>>, i)
        ELSE errorMap[k]]

AddIssueUnguarded(errorMap, v, issues, i) ==
    PushIssue(errorMap, NormalizedPath(v, issues[i]), i)

\* the body of the outer loop for issue i
AddIssue(errorMap, v, issues, i) ==
    LET path == NormalizedPath(v, issues[i])
    IN  IF Len(path) > 0 THEN PushIssue(errorMap, path, i) ELSE errorMap

RECURSIVE CollectIssues(_, _, _, _)
CollectIssues(errorMap, v, issues, i) ==
    IF i > Len(issues) THEN errorMap
    ELSE CollectIssues(AddIssue(errorMap, v, issues, i), v, issues, i + 1)

EmptyRecord == [k \in {} |-> <<>>]

Thrown == [kind |-> "throw"]
ReturnsUndefined == [kind |-> "undefined"]
ReturnsFields(errorMap) == [kind |-> "object", fields |-> errorMap]

ParseAsyncAsNoIssues(v, result) ==
    IF result.kind = "promise" THEN ReturnsUndefined
    ELSE IF ~result.hasIssues \/ Len(result.issues) = 0 THEN ReturnsUndefined
    ELSE ReturnsFields(CollectIssues(EmptyRecord, v, result.issues, 1))

ParseNoIssuesAsEmptyFields(v, result) ==
    IF result.kind = "promise" THEN Thrown
    ELSE IF ~result.hasIssues THEN ReturnsFields(EmptyRecord)
    ELSE ReturnsFields(CollectIssues(EmptyRecord, v, result.issues, 1))

\* parseValueWithSchema(value, schema), given what schema validate returned
parseValueWithSchema(v, result) ==
    IF result.kind = "promise" THEN Thrown
    ELSE IF ~result.hasIssues \/ Len(result.issues) = 0 THEN ReturnsUndefined
    ELSE ReturnsFields(CollectIssues(EmptyRecord, v, result.issues, 1))

\* onServerValidate of serverValidate: returns what parseValueWithSchema returns
onServerValidate(v, result) == parseValueWithSchema(v, result)

(***************************************************************************)
(* The validation results explored.                                        *)
(***************************************************************************)
RECURSIVE PathsOfLen(_)
PathsOfLen(n) ==
    IF n = 0 THEN {<<>>}
    ELSE {Append(p, s) : p \in PathsOfLen(n - 1), s \in Segments}

\* the issues whose path has n segments; an issue may also carry no path at all
IssuesOfLen(n) ==
    {[message |-> "invalid", hasPath |-> TRUE, path |-> p] : p \in PathsOfLen(n)}
    \cup (IF n = 0 THEN {[message |-> "invalid", hasPath |-> FALSE, path |-> <<>>]}
          ELSE {})

\* the issue lists of size at most budget
RECURSIVE IssueLists(_)
IssueLists(budget) ==
    {<<>>} \cup
    UNION { { <<first>> \o rest : first \in IssuesOfLen(n),
                                  rest \in IssueLists(budget - 1 - n) }
            : n \in 0..(budget - 1) }

ValidationResults ==
    { [kind |-> "promise"] }
    \cup { [kind |-> "sync", hasIssues |-> FALSE, issues |-> <<>>] }
    \cup { [kind |-> "sync", hasIssues |-> TRUE, issues |-> l]
           : l \in IssueLists(MaxResultSize) }

(***************************************************************************)
(* The state of a TanStack form, as far as error maps go: the form-level   *)
(* error of each validation source, and for each registered field the      *)
(* errors of each source (an undefined entry is held as the empty list).   *)
(***************************************************************************)
\* the fields the form of a page registers
FormFields(p) ==
    CASE p = "users" -> {"intent", "userId", "banReason"}
      [] p = "login" -> {"email"}
      [] p = "form5" -> {"age"}
      [] p = "form3" -> {"age"}
      [] p = "form1" -> {"age"}
      [] p = "profile" -> {"username"}
      [] p = "invitations" -> {"intent", "emails", "role"}
      [] OTHER -> {}

\* the form state useForm starts with, and form.reset() returns to
InitialForm(p) ==
    [ errorMap |-> <<>>,
      fieldMeta |-> [name \in FormFields(p) |-> [errorMap |-> <<>>]] ]

\* form.setErrorMap(errorMap): for every validation source of errorMap the
\* form-level error and each registered field's errors are overwritten with
\* what errorMap holds for them; nothing is appended to what was there
setErrorMap(f, errorMap) ==
    [ errorMap |->
        [source \in DOMAIN errorMap |->
            IF "form" \in DOMAIN errorMap[source]
            THEN Str(errorMap[source].form) ELSE Undefined] @@ f.errorMap,
      fieldMeta |->
        [name \in DOMAIN f.fieldMeta |->
            [errorMap |->
                [source \in DOMAIN errorMap |->
                    IF name \in DOMAIN errorMap[source].fields
                    THEN errorMap[source].fields[name] ELSE <<>>]
                @@ f.fieldMeta[name].errorMap]] ]

\* the validation sources, in the order their errors are listed
Sources == <<"onMount", "onChange", "onBlur", "onSubmit", "onServer">>

\* field.state.meta.errors: the errors of all sources of one field
RECURSIVE FieldErrorsFrom(_, _, _)
FieldErrorsFrom(f, name, i) ==
    IF i > Len(Sources) THEN <<>>
    ELSE (IF Sources[i] \in DOMAIN f.fieldMeta[name].errorMap
          THEN f.fieldMeta[name].errorMap[Sources[i]] ELSE <<>>)
         \o FieldErrorsFrom(f, name, i + 1)

\* formState.errors: the form-level errors of all sources
RECURSIVE FormErrorsFrom(_, _)
FormErrorsFrom(f, i) ==
    IF i > Len(Sources) THEN <<>>
    ELSE (IF Sources[i] \in DOMAIN f.errorMap /\ f.errorMap[Sources[i]] # Undefined
          THEN <<f.errorMap[Sources[i]]>> ELSE <<>>)
         \o FormErrorsFrom(f, i + 1)

\* no action has returned to the component yet
NoActionData == [kind |-> "none"]

\* const [banDialog, setBanDialog] = React.useState({ isOpen: false })
ClosedBanDialog == [isOpen |-> FALSE, userId |-> Undefined]

\* no submission of the invite form is in flight
NoRequests == <<>>

NotCalled == [kind |-> "none"]

InitParse ==
    /\ requests = NoRequests
    /\ searchParams = <<>>
    /\ value = Undefined
    /\ validation = [kind |-> "none"]
    /\ outcome = NotCalled
    /\ page = "form3"
    /\ formData = <<>>
    /\ response = [kind |-> "none"]
    /\ calls = <<>>
    /\ submissions = 0
    /\ actionData = NoActionData
    /\ form = InitialForm("form3")
    /\ effectRuns = 0
    /\ banDialog = ClosedBanDialog
    /\ attempts = <<>>
    /\ touched = {}
    /\ NoRoute

\* a call parseValueWithSchema(v, schema) whose schema returns result
CallParse ==
    /\ outcome = NotCalled
    /\ \E v \in Values, result \in ValidationResults :
          /\ value' = v
          /\ validation' = result
          /\ outcome' = onServerValidate(v, result)
    /\ UNCHANGED <<serverVars, clientVars, routeVars, overlapVars, listingVars>>

NextParse == CallParse

SpecParse == InitParse /\ [][NextParse]_vars

(***************************************************************************)
(* The route actions.  A request carries form data (the entries of the     *)
(* submitted form, every value a string); the action parses it with a zod  *)
(* schema and ends by returning data, returning nothing, or throwing.      *)
(***************************************************************************)
\* most requests made in one behaviour
MaxSubmissions == 2

\* a zod issue: a message and the path of the offending input
ZodIssue(message, path) == [message |-> message, path |-> path]

ExpectedString == "Invalid input: expected string, received undefined"
InvalidInput == "Invalid input"

Has(fd, field) == field \in DOMAIN fd

\* a required z.string() property of an object schema
RequiredString(fd, field) ==
    IF Has(fd, field) THEN <<>> ELSE <<ZodIssue(ExpectedString, <<StrKey(field)>>)>>

\* z.string().min(1, message)
NonEmptyString(fd, field, message) ==
    IF ~Has(fd, field) THEN <<ZodIssue(ExpectedString, <<StrKey(field)>>)>>
    ELSE IF Len(fd[field]) < 1 THEN <<ZodIssue(message, <<StrKey(field)>>)>>
    ELSE <<>>

\* z.discriminatedUnion("intent", ...): no option has this intent
NoSuchIntent(fd, intents) == ~Has(fd, "intent") \/ fd["intent"] \notin intents

\* z.email(): the addresses the bounded inputs hold
IsEmail(s) == s \in {"a@a.com", "b@b.com"}

\* v.split(",").map((i) => i.trim()).filter(Boolean) on the bounded inputs
SplitTrimFilter(s) ==
    CASE s = "" -> <<>>
      [] s = "," -> <<>>
      [] s = "a@a.com" -> <<"a@a.com">>
      [] s = "nobody" -> <<"nobody">>
      [] s = "a@a.com, b@b.com" -> <<"a@a.com", "b@b.com">>
      [] s = "a@a.com,nobody" -> <<"a@a.com", "nobody">>

\* banReason: z.string().max(16)
BanReasonMax == 16

usersSchema(fd) ==
    IF NoSuchIntent(fd, {"ban", "unban", "impersonate"})
    THEN <<ZodIssue(InvalidInput, <<StrKey("intent")>>)>>
    ELSE RequiredString(fd, "userId") \o
         (IF fd["intent"] # "ban" THEN <<>>
          ELSE IF ~Has(fd, "banReason")
          THEN <<ZodIssue(ExpectedString, <<StrKey("banReason")>>)>>
          ELSE IF Len(fd["banReason"]) > BanReasonMax
          THEN <<ZodIssue("Too big: expected string to have <=16 characters",
                          <<StrKey("banReason")>>)>>
          ELSE <<>>)

loginSchema(fd) ==
    IF ~Has(fd, "email") THEN <<ZodIssue(ExpectedString, <<StrKey("email")>>)>>
    ELSE IF ~IsEmail(fd["email"])
    THEN <<ZodIssue("Invalid email address", <<StrKey("email")>>)>>
    ELSE <<>>

\* schema1 of form5: age: z.number().gte(7, ...)
MinAge == 7

\* formDataSchema.pipe(schema1) of form5
form5Schema(fd) ==
    IF ~Has(fd, "age") THEN <<ZodIssue(ExpectedString, <<StrKey("age")>>)>>
    ELSE IF ToNumber(fd["age"]) = NaN
    THEN <<ZodIssue("Invalid input: expected number, received NaN", <<StrKey("age")>>)>>
    ELSE IF ToNumber(fd["age"]) < MinAge
    THEN <<ZodIssue("You must be 7 or older to make an account.", <<StrKey("age")>>)>>
    ELSE <<>>

RoleIssues(fd) ==
    IF Has(fd, "role") /\ fd["role"] \in {"member", "admin"} THEN <<>>
    ELSE <<ZodIssue("Role must be Member or Admin.", <<StrKey("role")>>)>>

\* at most this many emails in one invite
MaxInviteEmails == 10

\* inviteSchema.emails: transform, then three refinements that all run
inviteEmailsIssues(fd) ==
    IF ~Has(fd, "emails") THEN <<ZodIssue(ExpectedString, <<StrKey("emails")>>)>>
    ELSE LET emails == SplitTrimFilter(fd["emails"])
         IN  (IF \A i \in DOMAIN emails : IsEmail(emails[i]) THEN <<>>
              ELSE <<ZodIssue("Please provide valid email addresses.",
                              <<StrKey("emails")>>)>>) \o
             (IF Len(emails) >= 1 THEN <<>>
              ELSE <<ZodIssue("At least one email is required", <<StrKey("emails")>>)>>) \o
             (IF Len(emails) <= MaxInviteEmails THEN <<>>
              ELSE <<ZodIssue("Maximum 10 emails allowed", <<StrKey("emails")>>)>>)

invitationsSchema(fd) ==
    IF NoSuchIntent(fd, {"cancel", "invite"})
    THEN <<ZodIssue(InvalidInput, <<StrKey("intent")>>)>>
    ELSE IF fd["intent"] = "cancel"
    THEN NonEmptyString(fd, "invitationId", "Missing invitationId")
    ELSE inviteEmailsIssues(fd) \o RoleIssues(fd)

\* the issues z.array(z.email(message)) reports: one for each bad element
RECURSIVE BadEmailIssues(_, _)
BadEmailIssues(emails, i) ==
    IF i > Len(emails) THEN <<>>
    ELSE (IF IsEmail(emails[i]) THEN <<>>
          ELSE <<ZodIssue("Please provide valid email addresses.",
                          <<StrKey("emails"), NumKey(i - 1)>>)>>)
         \o BadEmailIssues(emails, i + 1)

\* the schema of the earlier invitations action: transform, then pipe to an array
legacyInvitationsSchema(fd) ==
    IF NoSuchIntent(fd, {"cancel", "invite"})
    THEN <<ZodIssue(InvalidInput, <<StrKey("intent")>>)>>
    ELSE IF fd["intent"] = "cancel"
    THEN NonEmptyString(fd, "invitationId", "Missing invitationId")
    ELSE (IF ~Has(fd, "emails")
          THEN <<ZodIssue(ExpectedString, <<StrKey("emails")>>)>>
          ELSE LET emails == SplitTrimFilter(fd["emails"])
               IN  BadEmailIssues(emails, 1) \o
                   (IF Len(emails) >= 1 THEN <<>>
                    ELSE <<ZodIssue("At least one email is required",
                                    <<StrKey("emails")>>)>>) \o
                   (IF Len(emails) <= MaxInviteEmails THEN <<>>
                    ELSE <<ZodIssue("Maximum 10 emails allowed",
                                    <<StrKey("emails")>>)>>))
         \o RoleIssues(fd)

billingSchema(fd) ==
    IF NoSuchIntent(fd, {"manage", "cancel", "restore"})
    THEN <<ZodIssue(InvalidInput, <<StrKey("intent")>>)>>
    ELSE IF fd["intent"] = "manage" THEN <<>>
    ELSE NonEmptyString(fd, "subscriptionId", "Missing subscriptionId")

\* the messages of a list of issues, in order
Messages(issues) == [i \in DOMAIN issues |-> issues[i].message]

\* z.flattenError(error): the messages of the root-level issues, and the
\* messages of the others under the first key of their path
flattenError(issues) ==
    [ formErrors |-> Messages(SelectSeq(issues, LAMBDA x : x.path = <<>>)),
      fieldErrors |->
        [ k \in {issues[i].path[1].s : i \in {j \in DOMAIN issues : issues[j].path # <<>>}}
            |-> Messages(SelectSeq(issues,
                    LAMBDA x : x.path # <<>> /\ x.path[1].s = k)) ] ]

\* formErrors.join(", ")
RECURSIVE Join(_)
Join(messages) ==
    IF Len(messages) = 0 THEN ""
    ELSE IF Len(messages) = 1 THEN messages[1]
    ELSE messages[1] \o ", " \o Join(Tail(messages))

\* const errorMap = { onSubmit: { ...(form), fields: ... } } of the actions
errorMapOf(flat) ==
    LET fields == [ k \in DOMAIN flat.fieldErrors |->
                      [ i \in DOMAIN flat.fieldErrors[k] |->
                          [message |-> flat.fieldErrors[k][i]] ] ]
    IN  [ onSubmit |->
            IF Len(flat.formErrors) > 0
            THEN [ form |-> Join(flat.formErrors), fields |-> fields ]
            ELSE [ fields |-> fields ] ]

\* the ways an action ends
Returned(data) == [kind |-> "data", data |-> data]
ReturnedNothing == [kind |-> "undefined"]
ReturnedNull == [kind |-> "null"]
ReturnedRedirect == [kind |-> "redirect"]
Threw(error) == [kind |-> "throw", error |-> error]

Ends(r, c) == [response |-> r, calls |-> c]

\* an error map kept across requests, to which each failure adds its messages
ValidationFailureAccumulating(issues) ==
    LET new == errorMapOf(flattenError(issues)).onSubmit.fields
        old == IF response.kind = "data" /\ "errorMap" \in DOMAIN response.data
               THEN response.data.errorMap.onSubmit.fields ELSE <<>>
    IN  Ends(Returned([success |-> FALSE,
                       errorMap |-> [onSubmit |-> [fields |->
                           [k \in DOMAIN old \cup DOMAIN new |->
                               (IF k \in DOMAIN old THEN old[k] ELSE <<>>) \o
                               (IF k \in DOMAIN new THEN new[k] ELSE <<>>)]]]]),
             <<>>)

ValidationFailureWithoutSuccess(issues) ==
    Ends(Returned([errorMap |-> errorMapOf(flattenError(issues))]), <<>>)

\* a validation failure found only after the service was called
ValidationFailureAfterCall(issues) ==
    Ends(Returned([success |-> FALSE, errorMap |-> errorMapOf(flattenError(issues))]),
         <<[api |-> "signInMagicLink", rejected |-> FALSE]>>)

\* return { success: false, errorMap }
ValidationFailure(issues) ==
    Ends(Returned([success |-> FALSE, errorMap |-> errorMapOf(flattenError(issues))]),
         <<>>)

\* a call as the log of calls holds it: with whether its promise rejected
Answered(call) == call @@ [rejected |-> FALSE]
Rejected(call) == call @@ [rejected |-> TRUE]

AwaitCallRetried(call, ok, whenOk) ==
    IF ok THEN Ends(whenOk, <<Answered(call)>>)
    ELSE Ends(Threw("APIError"), <<Rejected(call), Rejected(call)>>)

\* one awaited call of the auth service that returns or rejects
AwaitCall(call, ok, whenOk) ==
    IF ok THEN Ends(whenOk, <<Answered(call)>>)
    ELSE Ends(Threw("APIError"), <<Rejected(call)>>)

usersActionParseThrows(fd, apiOk) ==
    IF usersSchema(fd) # <<>> THEN Ends(Threw("ZodError"), <<>>)
    ELSE AwaitCall([api |-> fd["intent"], userId |-> fd["userId"]], apiOk,
                   Returned([success |-> TRUE]))

\* action of admin.users
usersAction(fd, apiOk) ==
    IF usersSchema(fd) # <<>> THEN ValidationFailure(usersSchema(fd))
    ELSE CASE fd["intent"] = "ban" ->
                AwaitCall([api |-> "banUser", userId |-> fd["userId"],
                           banReason |-> fd["banReason"]],
                          apiOk, Returned([success |-> TRUE]))
           [] fd["intent"] = "unban" ->
                AwaitCall([api |-> "unbanUser", userId |-> fd["userId"]],
                          apiOk, Returned([success |-> TRUE]))
           [] fd["intent"] = "impersonate" ->
                AwaitCall([api |-> "impersonateUser", userId |-> fd["userId"]],
                          apiOk, Threw("redirect"))

\* a login action that reads the stored link whatever DEMO_MODE is
loginActionAlwaysReadingKV(fd, api, env) ==
    IF loginSchema(fd) # <<>> THEN ValidationFailure(loginSchema(fd))
    ELSE LET signIn == [api |-> "signInMagicLink", email |-> fd["email"]]
         IN  IF api = "reject" THEN Ends(Threw("APIError"), <<Rejected(signIn)>>)
             ELSE IF api = "noStatus"
             THEN Ends(Threw("invariant"), <<Answered(signIn)>>)
             ELSE Ends(Returned([success |-> TRUE,
                                 magicLink |-> IF env.KV = Null THEN Undefined
                                               ELSE env.KV]),
                       <<Answered(signIn),
                         Answered([api |-> "KV.get", key |-> "demo:magicLink"])>>)

\* action of login; api is how signInMagicLink ends, env the worker environment
loginAction(fd, api, env) ==
    IF loginSchema(fd) # <<>> THEN ValidationFailure(loginSchema(fd))
    ELSE LET signIn == [api |-> "signInMagicLink", email |-> fd["email"]]
         IN  IF api = "reject" THEN Ends(Threw("APIError"), <<Rejected(signIn)>>)
             ELSE IF api = "noStatus"
             THEN Ends(Threw("invariant"), <<Answered(signIn)>>)
             ELSE IF env.DEMO_MODE = "true"
             THEN Ends(Returned([success |-> TRUE,
                                 magicLink |-> IF env.KV = Null THEN Undefined
                                               ELSE env.KV]),
                       <<Answered(signIn),
                         Answered([api |-> "KV.get", key |-> "demo:magicLink"])>>)
             ELSE Ends(Returned([success |-> TRUE, magicLink |-> Undefined]),
                       <<Answered(signIn)>>)

\* action of form5
form5Action(fd) ==
    IF form5Schema(fd) # <<>>
    THEN Ends(Returned([errorMap |-> errorMapOf(flattenError(form5Schema(fd)))]), <<>>)
    ELSE Ends(ReturnedNothing, <<>>)

\* the loop of case "invite" from email i on; results[i] is how the calls for
\* email i end: the invitation is created with the requested role ("ok"), with
\* another role ("otherRole", then repaired by updateInvitationRole),
\* createInvitation rejects ("reject"), or the repair rejects ("repairRejects")
RECURSIVE inviteLoop(_, _, _, _, _)
inviteLoop(emails, role, results, i, made) ==
    IF i > Len(emails) THEN Ends(Returned([success |-> TRUE]), made)
    ELSE LET create == [api |-> "createInvitation", email |-> emails[i], role |-> role]
             \* the invitation createInvitation answers with
             id == IF i = 1 THEN "1" ELSE "7"
             another == IF role = "member" THEN "admin" ELSE "member"
             created(r) == Answered(create) @@ [result |-> [id |-> id, role |-> r]]
             repair == [api |-> "updateInvitationRole", invitationId |-> ToNumber(id),
                        role |-> role]
         IN  CASE results[i] = "reject" ->
                    Ends(Threw("APIError"), Append(made, Rejected(create)))
               [] results[i] = "repairRejects" ->
                    Ends(Threw("APIError"),
                         made \o <<created(another), Rejected(repair)>>)
               [] results[i] = "otherRole" ->
                    inviteLoop(emails, role, results, i + 1,
                               made \o <<created(another), Answered(repair)>>)
               [] results[i] = "ok" ->
                    inviteLoop(emails, role, results, i + 1,
                               Append(made, created(role)))

\* the switch without the role workaround: updateInvitationRole is never called
invitationsSwitchWithoutRepair(fd, results) ==
    IF fd["intent"] = "cancel"
    THEN AwaitCall([api |-> "cancelInvitation", invitationId |-> fd["invitationId"]],
                   results[1] = "ok", Returned([success |-> TRUE]))
    ELSE LET end == inviteLoop(SplitTrimFilter(fd["emails"]), fd["role"], results,
                               1, <<>>)
         IN  Ends(end.response,
                  SelectSeq(end.calls, LAMBDA c : c.api # "updateInvitationRole"))

\* a switch that undoes an invite that failed: the invitations created before
\* the rejection are cancelled
invitationsSwitchRollingBack(fd, results) ==
    IF fd["intent"] = "cancel"
    THEN AwaitCall([api |-> "cancelInvitation", invitationId |-> fd["invitationId"]],
                   results[1] = "ok", Returned([success |-> TRUE]))
    ELSE LET end == inviteLoop(SplitTrimFilter(fd["emails"]), fd["role"], results,
                               1, <<>>)
             created == SelectSeq(end.calls, LAMBDA c : c.api = "createInvitation"
                                                        /\ ~c.rejected)
         IN  IF end.response.kind # "throw" THEN end
             ELSE Ends(end.response,
                       end.calls \o
                       [j \in DOMAIN created |->
                           Answered([api |-> "cancelInvitation",
                                     invitationId |-> created[j].result.id])])

\* what both invitations actions do once the form data has parsed
invitationsSwitch(fd, results) ==
    IF fd["intent"] = "cancel"
    THEN AwaitCall([api |-> "cancelInvitation", invitationId |-> fd["invitationId"]],
                   results[1] = "ok", Returned([success |-> TRUE]))
    ELSE inviteLoop(SplitTrimFilter(fd["emails"]), fd["role"], results, 1, <<>>)

\* action of app.$organizationId.invitations
invitationsAction(fd, results) ==
    IF invitationsSchema(fd) # <<>> THEN ValidationFailure(invitationsSchema(fd))
    ELSE invitationsSwitch(fd, results)

\* the earlier action of app.$organizationId.invitations
legacyInvitationsAction(fd, results) ==
    IF legacyInvitationsSchema(fd) # <<>>
    THEN LET flat == flattenError(legacyInvitationsSchema(fd))
         IN  Ends(Returned([success |-> FALSE, details |-> flat.formErrors,
                            validationErrors |-> flat.fieldErrors]), <<>>)
    ELSE invitationsSwitch(fd, results)

\* action of app.$organizationId.billing: schema.parse throws on bad form data
billingAction(fd, apiOk) ==
    IF billingSchema(fd) # <<>> THEN Ends(Threw("ZodError"), <<>>)
    ELSE CASE fd["intent"] = "manage" ->
                AwaitCall([api |-> "createBillingPortal"], apiOk, ReturnedRedirect)
           [] fd["intent"] = "cancel" ->
                AwaitCall([api |-> "cancelSubscription",
                           subscriptionId |-> fd["subscriptionId"]],
                          apiOk, ReturnedRedirect)
           [] fd["intent"] = "restore" ->
                AwaitCall([api |-> "restoreSubscription",
                           subscriptionId |-> fd["subscriptionId"]],
                          apiOk, ReturnedNull)

(***************************************************************************)
(* The requests explored.                                                  *)
(***************************************************************************)
Absent == "(absent)"

\* the entry of one form field, or no entry when the field is absent
Entry(field, v) == IF v = Absent THEN <<>> ELSE field :> v

UsersFormData ==
    { Entry("intent", i) @@ Entry("userId", u) @@ Entry("banReason", b) :
        i \in {Absent, "ban", "unban", "impersonate", "delete"},
        u \in {Absent, "u1"},
        b \in {Absent, "spam", "seventeen letters"} }

LoginFormData == { Entry("email", e) : e \in {Absent, "a@a.com", "nobody"} }

Form5FormData == { Entry("age", a) : a \in {Absent, "13", "7", "6", "abc"} }

InvitationsFormData ==
    { Entry("intent", i) @@ Entry("invitationId", id) : 
        i \in {Absent, "cancel", "delete"}, id \in {Absent, "", "i1"} }
    \cup
    { Entry("intent", "invite") @@ Entry("emails", e) @@ Entry("role", r) :
        e \in {Absent, "", ",", "a@a.com", "nobody", "a@a.com, b@b.com",
               "a@a.com,nobody"},
        r \in {Absent, "member", "admin", "owner"} }

BillingFormData ==
    { Entry("intent", i) @@ Entry("subscriptionId", id) :
        i \in {Absent, "manage", "cancel", "restore", "delete"},
        id \in {Absent, "", "s1"} }

CallResults == {"ok", "otherRole", "reject", "repairRejects"}

\* one result for each email of an invite (two emails at most in the inputs)
InviteResults == [1..2 -> CallResults]

\* the results that the action can tell apart for the form data fd: one for
\* the invitation a cancel names, one for each email of an invite
ResultsFor(fd) ==
    LET awaited ==
            IF "intent" \in DOMAIN fd /\ fd["intent"] = "cancel" THEN 1
            ELSE IF "emails" \in DOMAIN fd THEN Len(SplitTrimFilter(fd["emails"]))
            ELSE 0
    IN  {r \in InviteResults : \A i \in 1..2 : i > awaited => r[i] = "ok"}

Environments ==
    [DEMO_MODE : {"true", "false"}, KV : {Null, Str("https://app/magic-link?token=t")}]

Pages ==
    {"users", "login", "form5", "form1", "profile", "invitations", "invitationsLegacy",
     "billing"}

\* the users listed on the users page
Users == {"u1", "u2"}

\* z.string().min(3, "Min 3 chars"), the client's schema of the profile form
ProfileMinChars == 3

\* what the admin may type as the reason of a ban
BanReasons == {"", "spam", "seventeen letters"}

(***************************************************************************)
(* The components.                                                         *)
(***************************************************************************)
\* most runs of a component's effect with the same action data
MaxEffectRuns == 3

\* actionData?.errorMap, fetcher.data?.errorMap
HasErrorMap(data) == data.kind = "data" /\ "errorMap" \in DOMAIN data.data

\* actionData?.success, fetcher.data?.success
HasSuccess(data) ==
    data.kind = "data" /\ "success" \in DOMAIN data.data /\ data.data.success

applyErrorMapAppending(f, data) ==
    IF ~HasErrorMap(data) THEN f
    ELSE LET em == data.data.errorMap
         IN  [ setErrorMap(f, em) EXCEPT !.fieldMeta =
                 [name \in DOMAIN f.fieldMeta |->
                    [errorMap |->
                       [source \in DOMAIN em |->
                          (IF source \in DOMAIN f.fieldMeta[name].errorMap
                           THEN f.fieldMeta[name].errorMap[source] ELSE <<>>)
                          \o (IF name \in DOMAIN em[source].fields
                              THEN em[source].fields[name] ELSE <<>>)]
                       @@ f.fieldMeta[name].errorMap]] ]

\* if (actionData?.errorMap) { form.setErrorMap(actionData.errorMap); }
applyErrorMap(f, data) ==
    IF HasErrorMap(data) THEN setErrorMap(f, data.data.errorMap) ELSE f

\* an onOpenChange that flips isOpen and keeps the selected user on closing
onOpenChangeBanDialogKeepingUser(prev, isOpen) ==
    IF prev.isOpen = isOpen THEN prev ELSE [prev EXCEPT !.isOpen = isOpen]

\* onOpenChangeBanDialog: setBanDialog((prev) => ...)
onOpenChangeBanDialog(prev, isOpen) ==
    IF prev.isOpen = isOpen THEN prev
    ELSE IF isOpen THEN [prev EXCEPT !.isOpen = isOpen]
    ELSE [isOpen |-> FALSE, userId |-> Undefined]

\* a BanDialog rendered without a key: the dialog is never remounted and keeps
\* its form and its fetcher whoever the selected user is
RenderBanDialogWithoutKey(next, applied, ranEffect) ==
    /\ banDialog' = next
    /\ form' = applied
    /\ actionData' = actionData
    /\ effectRuns' = IF ranEffect THEN effectRuns + 1 ELSE effectRuns
    /\ attempts' = attempts
    /\ touched' = touched

\* <BanDialog key={banDialog.userId} ...>: the users page renders with the
\* dialog state next and the form state applied.  A changed key remounts the
\* dialog, with a new form and a new fetcher; otherwise the dialog keeps both.
RenderBanDialog(next, applied, ranEffect) ==
    /\ banDialog' = next
    /\ IF next.userId # banDialog.userId
       THEN /\ form' = InitialForm("users")
            /\ actionData' = NoActionData
            /\ effectRuns' = 0
            /\ attempts' = <<>>
            /\ touched' = {}
       ELSE /\ form' = applied
            /\ actionData' = actionData
            /\ effectRuns' = IF ranEffect THEN effectRuns + 1 ELSE effectRuns
            /\ attempts' = attempts
            /\ touched' = touched

InitForm ==
    /\ requests = NoRequests
    /\ searchParams = <<>>
    /\ value = Undefined
    /\ validation = [kind |-> "none"]
    /\ outcome = NotCalled
    /\ page \in Pages
    /\ formData = <<>>
    /\ response = [kind |-> "none"]
    /\ calls = <<>>
    /\ submissions = 0
    /\ actionData = NoActionData
    /\ form = InitialForm(page)
    /\ effectRuns = 0
    /\ banDialog = ClosedBanDialog
    /\ attempts = <<>>
    /\ touched = {}
    /\ NoRoute

\* a request with form data fd reaches the action of the page, which ends as end
Handle(fd, end) ==
    /\ submissions < MaxSubmissions
    /\ submissions' = submissions + 1
    /\ formData' = fd
    /\ response' = end.response
    /\ calls' = end.calls
    /\ UNCHANGED <<page, parseVars, overlapVars, listingVars>>

\* what the action returned reaches the component as new action data; a
\* thrown failure or redirect leaves the component's data as it was
Deliver(end) ==
    /\ IF end.response.kind \in {"data", "undefined", "null"}
       THEN /\ actionData' = end.response
            /\ effectRuns' = 0
            /\ attempts' = Append(attempts, end.response)
       ELSE UNCHANGED <<actionData, effectRuns, attempts>>
    /\ UNCHANGED <<form, banDialog, touched>>

\* a request to the action of admin.users that is not made by the ban dialog:
\* the unban and impersonate menu items (through the page's own fetcher), or
\* any other post to the route
UsersRequest ==
    /\ page = "users"
    /\ \E fd \in UsersFormData, apiOk \in BOOLEAN : Handle(fd, usersAction(fd, apiOk))
    /\ UNCHANGED clientVars
    /\ UNCHANGED routeVars

\* the Ban menu item of a user: setBanDialog({ isOpen: true, userId: user.id })
OpenBanDialog ==
    /\ page = "users"
    /\ \E u \in Users : RenderBanDialog([isOpen |-> TRUE, userId |-> Str(u)], form, FALSE)
    /\ UNCHANGED <<serverVars, parseVars, overlapVars, listingVars>>
    /\ UNCHANGED routeVars

\* the Cancel button of the ban dialog: onOpenChange(false)
CancelBanDialog ==
    /\ page = "users"
    /\ banDialog.userId # Undefined
    /\ RenderBanDialog(onOpenChangeBanDialog(banDialog, FALSE), form, FALSE)
    /\ UNCHANGED <<serverVars, parseVars, overlapVars, listingVars>>
    /\ UNCHANGED routeVars

\* the ban form is submitted: form.handleSubmit() has no validator to run and
\* calls onSubmit, which posts the form value through the dialog's fetcher
BanSubmit ==
    /\ page = "users"
    /\ banDialog.userId # Undefined
    /\ banDialog.isOpen
    /\ \E banReason \in BanReasons, apiOk \in BOOLEAN :
          LET fd == ("intent" :> "ban") @@ ("userId" :> banDialog.userId.s)
                    @@ ("banReason" :> banReason)
              end == usersAction(fd, apiOk)
          IN  Handle(fd, end) /\ Deliver(end)
    /\ UNCHANGED routeVars

\* the effect of BanDialog
BanDialogEffect ==
    /\ page = "users"
    /\ effectRuns < MaxEffectRuns
    /\ RenderBanDialog(IF HasSuccess(actionData)
                       THEN onOpenChangeBanDialog(banDialog, FALSE)
                       ELSE banDialog,
                       applyErrorMap(form, actionData), TRUE)
    /\ UNCHANGED <<serverVars, parseVars, overlapVars, listingVars>>
    /\ UNCHANGED routeVars

LoginRequest ==
    /\ page = "login"
    /\ \E fd \in LoginFormData, api \in {"ok", "noStatus", "reject"},
          env \in Environments :
          LET end == loginAction(fd, api, env)
          IN  /\ Handle(fd, end) /\ Deliver(end)
              /\ context' = [env |-> env]
    /\ UNCHANGED <<route, method, params, stage, loaderData, routeResult>>

Form5Request ==
    /\ page = "form5"
    /\ \E fd \in Form5FormData :
          LET end == form5Action(fd) IN Handle(fd, end) /\ Deliver(end)
    /\ UNCHANGED routeVars

\* a validator that reports the field's message only
form1OnSubmitFieldOnly(v) ==
    IF v.age # NaN /\ v.age < 5
    THEN [fields |-> [age |-> "form: field: Must be 5 or older to sign"]]
    ELSE Undefined

\* validators.onSubmit of form1: if (value.age < 5) return { form, fields }
form1OnSubmit(v) ==
    IF v.age # NaN /\ v.age < 5
    THEN [form |-> "form: Must be 5 or older to sign",
          fields |-> [age |-> "form: field: Must be 5 or older to sign"]]
    ELSE Undefined

\* form1 is submitted with an age typed into its number input (NaN when the
\* input is empty): form.handleSubmit() runs the onSubmit validator
Form1Submit ==
    /\ page = "form1"
    /\ \E age \in {0, 4, 5, 13, NaN} :
          /\ value' = [age |-> age]
          /\ outcome' = [kind |-> "validated", result |-> form1OnSubmit(value')]
    /\ UNCHANGED <<validation, serverVars, clientVars, overlapVars, listingVars>>
    /\ UNCHANGED routeVars

\* onBlur={field.handleBlur}: the input of the page's form has been left
Blur ==
    /\ page \in {"users", "profile"}
    /\ page = "users" => banDialog.userId # Undefined
    /\ touched' = touched \cup {IF page = "users" THEN "banReason" ELSE "username"}
    /\ UNCHANGED <<actionData, form, effectRuns, banDialog, attempts, serverVars,
                   parseVars, overlapVars, listingVars>>
    /\ UNCHANGED routeVars

\* action of profile-form-example: onServerValidate rejects every non-empty
\* username, serverValidate throws ServerValidateError, and the action
\* returns its formState, which holds the rejection under errorMap.onServer
profileAction(fd) ==
    IF fd["username"] # ""
    THEN Ends(Returned([errorMap |->
                 [onServer |->
                     [fields |-> [username |-> "That username is already taken."]]]]),
              <<>>)
    ELSE Ends(Returned([username |-> fd["username"]]), <<>>)

\* mergeForm(base, actionData ?? initialFormState), the transform of the
\* profile form: the state the component renders is the form's own state with
\* the server's entries in its error map; the meta of the fields (errors,
\* isValid) is that of the form's own state
mergeForm(f, data) ==
    IF HasErrorMap(data)
    THEN [f EXCEPT !.errorMap = data.data.errorMap @@ f.errorMap]
    ELSE f

\* a flag that the server's error map drives too
isInvalidByServerErrorMap(name) ==
    /\ name \in touched
    /\ \/ FieldErrorsFrom(form, name, 1) # <<>>
       \/ /\ HasErrorMap(actionData)
          /\ "onServer" \in DOMAIN actionData.data.errorMap
          /\ name \in DOMAIN actionData.data.errorMap.onServer.fields

\* const isInvalid = field.state.meta.isTouched && !field.state.meta.isValid,
\* the flag of aria-invalid and data-invalid; a field is valid when its meta
\* holds no error
isInvalid(name) ==
    /\ name \in touched
    /\ FieldErrorsFrom(IF page = "profile" THEN mergeForm(form, actionData) ELSE form,
                       name, 1) # <<>>

\* the profile form is submitted: form.handleSubmit() touches the field and
\* runs the client's schema, and the form is posted whatever the schema said
\* (the handler does not prevent the default); the action's answer is the new
\* action data
ProfileRequest ==
    /\ page = "profile"
    /\ \E username \in {"", "ab", "abc"} :
          LET fd == "username" :> username
              end == profileAction(fd)
              validated ==
                  setErrorMap(form,
                      [onSubmit |->
                          [fields |->
                              [username |-> IF Len(username) < ProfileMinChars
                                            THEN <<[message |-> "Min 3 chars"]>>
                                            ELSE <<>>]]])
          IN  /\ Handle(fd, end)
              /\ actionData' = end.response
              /\ form' = validated
    /\ touched' = touched \cup {"username"}
    /\ UNCHANGED <<effectRuns, banDialog, attempts>>
    /\ UNCHANGED routeVars

\* the effect of the login and form5 components
ErrorMapEffect ==
    /\ page \in {"login", "form5"}
    /\ effectRuns < MaxEffectRuns
    /\ form' = applyErrorMap(form, actionData)
    /\ effectRuns' = effectRuns + 1
    /\ UNCHANGED <<actionData, banDialog, attempts, touched, serverVars, parseVars,
                   overlapVars, listingVars>>
    /\ UNCHANGED routeVars

InvitationsRequest ==
    /\ page = "invitations"
    /\ \E fd \in InvitationsFormData : \E results \in ResultsFor(fd) :
          LET end == invitationsAction(fd, results) IN Handle(fd, end) /\ Deliver(end)
    /\ UNCHANGED routeVars

\* the effect of the invitations component: if (actionData?.success) form.reset()
InvitationsEffect ==
    /\ page = "invitations"
    /\ effectRuns < MaxEffectRuns
    /\ form' = IF HasSuccess(actionData) THEN InitialForm("invitations") ELSE form
    /\ effectRuns' = effectRuns + 1
    /\ UNCHANGED <<actionData, banDialog, attempts, touched, serverVars, parseVars,
                   overlapVars, listingVars>>
    /\ UNCHANGED routeVars

LegacyInvitationsRequest ==
    /\ page = "invitationsLegacy"
    /\ \E fd \in InvitationsFormData : \E results \in ResultsFor(fd) :
          LET end == legacyInvitationsAction(fd, results)
          IN  Handle(fd, end) /\ Deliver(end)
    /\ UNCHANGED routeVars

BillingRequest ==
    /\ page = "billing"
    /\ \E fd \in BillingFormData, apiOk \in BOOLEAN :
          LET end == billingAction(fd, apiOk) IN Handle(fd, end) /\ Deliver(end)
    /\ UNCHANGED routeVars

NextForm ==
    \/ UsersRequest
    \/ OpenBanDialog
    \/ CancelBanDialog
    \/ BanSubmit
    \/ BanDialogEffect
    \/ LoginRequest
    \/ Form5Request
    \/ ErrorMapEffect
    \/ InvitationsRequest
    \/ InvitationsEffect
    \/ LegacyInvitationsRequest
    \/ BillingRequest
    \/ Form1Submit
    \/ Blur
    \/ ProfileRequest

SpecForm == InitForm /\ [][NextForm]_vars

(***************************************************************************)
(* A request through a parent route.  The route's middleware runs first;   *)
(* when it neither throws nor answers, the action of the child route runs  *)
(* (for a POST), then the parent route's loader.  The admin route is the   *)
(* parent of admin.users, the organization route of the invitations page.  *)
(***************************************************************************)
\* the organizations of the auth service, and an id of none of them
Organizations == {"o1", "o2"}
OrganizationIds == Organizations \cup {"o9"}

Organization(id) == [id |-> id]

\* the users a session may belong to: an admin, a plain user, one with no role
SessionUsers ==
    {[id |-> "u1", role |-> "admin"], [id |-> "u2", role |-> "user"], [id |-> "u3"]}

\* requestContext.session: none, or the session of a user
Sessions == {Null} \cup {[user |-> u] : u \in SessionUsers}

\* the RequestContext the server entry hands to the middleware
RequestContexts ==
    { [session |-> s, authService |-> "authService", repository |-> "repository",
       env |-> "env"] : s \in Sessions }

\* the ways a middleware or loader ends
Passes == [kind |-> "next"]
RedirectTo(url) == [kind |-> "redirect", to |-> url]
ResponseWith(status) == [kind |-> "response", status |-> status]
LoaderData(data) == [kind |-> "data", data |-> data]
Failed(error) == [kind |-> "throw", error |-> error]

\* session?.user
HasSessionUser(session) == session # Null

adminMiddlewareWithoutRoleCheck(ctx) ==
    IF ~HasSessionUser(ctx.session) THEN RedirectTo("/login") ELSE Passes

\* adminMiddleware
adminMiddleware(ctx) ==
    IF ~HasSessionUser(ctx.session) THEN RedirectTo("/login")
    ELSE IF ~("role" \in DOMAIN ctx.session.user /\ ctx.session.user.role = "admin")
    THEN ResponseWith(403)
    ELSE Passes

\* loader of admin
adminLoader(ctx) ==
    IF ~HasSessionUser(ctx.session) THEN Failed("Missing user session")
    ELSE LoaderData([user |-> ctx.session.user])

\* what listOrganizations may answer: it rejects, or lists organizations
Listings ==
    {[kind |-> "reject"]} \cup
    { [kind |-> "list", organizations |-> l] :
        l \in { <<>>, <<Organization("o1")>>, <<Organization("o2")>>,
                <<Organization("o1"), Organization("o2")>>,
                <<Organization("o2"), Organization("o1")>> } }

\* organizations.find((org) => org.id === organizationId)
RECURSIVE find(_, _, _)
find(organizations, organizationId, i) ==
    IF i > Len(organizations) THEN Undefined
    ELSE IF organizations[i].id = organizationId THEN organizations[i]
    ELSE find(organizations, organizationId, i + 1)

\* { ...requestContext, organization, organizations }
ExtendedContext(ctx, organization, organizations) ==
    [k \in DOMAIN ctx \cup {"organization", "organizations"} |->
        IF k = "organization" THEN organization
        ELSE IF k = "organizations" THEN organizations
        ELSE ctx[k]]

MiddlewareEnds(result, ctx) == [result |-> result, context |-> ctx]

organizationMiddlewareFirstListed(ctx, organizationId, listing) ==
    IF listing.kind = "reject" THEN MiddlewareEnds(Failed("APIError"), ctx)
    ELSE IF Len(listing.organizations) = 0 THEN MiddlewareEnds(ResponseWith(403), ctx)
    ELSE MiddlewareEnds(Passes,
             ExtendedContext(ctx, listing.organizations[1], listing.organizations))

organizationMiddlewareWithoutSpread(ctx, organizationId, listing) ==
    IF listing.kind = "reject" THEN MiddlewareEnds(Failed("APIError"), ctx)
    ELSE LET organization == find(listing.organizations, organizationId, 1)
         IN  IF organization = Undefined THEN MiddlewareEnds(ResponseWith(403), ctx)
             ELSE MiddlewareEnds(Passes,
                      [organization |-> organization,
                       organizations |-> listing.organizations])

\* organizationMiddleware
organizationMiddleware(ctx, organizationId, listing) ==
    IF listing.kind = "reject" THEN MiddlewareEnds(Failed("APIError"), ctx)
    ELSE LET organization == find(listing.organizations, organizationId, 1)
         IN  IF organization = Undefined THEN MiddlewareEnds(ResponseWith(403), ctx)
             ELSE MiddlewareEnds(Passes,
                      ExtendedContext(ctx, organization, listing.organizations))

\* loader of app.$organizationId
organizationLoader(ctx, organizationId) ==
    IF "organization" \notin DOMAIN ctx THEN Failed("Missing organization")
    ELSE IF ctx.organization.id # organizationId THEN Failed("Organization ID mismatch")
    ELSE IF "organizations" \notin DOMAIN ctx THEN Failed("Missing organizations")
    ELSE IF ctx.session = Null THEN Failed("Missing session")
    ELSE LoaderData([organization |-> ctx.organization,
                     organizations |-> ctx.organizations,
                     user |-> ctx.session.user])

\* what hasPermission answers: it rejects, or says whether the requester may
\* create and cancel invitations
PermissionAnswers == {"reject", "granted", "denied"}

\* what listInvitations answers: it rejects, or lists the invitations
InvitationListings ==
    {[kind |-> "reject"]} \cup {[kind |-> "list", invitations |-> l] : l \in {<<>>, <<"i1">>}}

\* loader of app.$organizationId.invitations: two awaited calls in a row
invitationsLoader(organizationId, permission, listed) ==
    LET hasPermission == [api |-> "hasPermission", organizationId |-> organizationId]
        listInvitations == [api |-> "listInvitations", organizationId |-> organizationId]
    IN  IF permission = "reject"
        THEN Ends(Threw("APIError"), <<Rejected(hasPermission)>>)
        ELSE IF listed.kind = "reject"
        THEN Ends(Threw("APIError"), <<Answered(hasPermission), Rejected(listInvitations)>>)
        ELSE Ends(Returned([canManageInvitations |-> permission = "granted",
                            invitations |-> listed.invitations]),
                  <<Answered(hasPermission), Answered(listInvitations)>>)

Subscription(id, status) == [id |-> id, status |-> status]

\* what listActiveSubscriptions answers: it rejects, or lists subscriptions
SubscriptionListings ==
    {[kind |-> "reject"]} \cup
    { [kind |-> "list", subscriptions |-> l] :
        l \in { <<>>, <<Subscription("s1", "active")>>,
                <<Subscription("s1", "canceled")>>,
                <<Subscription("s1", "canceled"), Subscription("s2", "trialing")>> } }

\* subscriptions.find((v) => v.status === "active" || v.status === "trialing")
RECURSIVE findActive(_, _)
findActive(subscriptions, i) ==
    IF i > Len(subscriptions) THEN Undefined
    ELSE IF subscriptions[i].status \in {"active", "trialing"} THEN subscriptions[i]
    ELSE findActive(subscriptions, i + 1)

\* loader of app.$organizationId.billing
billingLoader(organizationId, listed) ==
    LET call == [api |-> "listActiveSubscriptions", referenceId |-> organizationId]
    IN  IF listed.kind = "reject" THEN Ends(Threw("APIError"), <<Rejected(call)>>)
        ELSE Ends(Returned([activeSubscription |-> findActive(listed.subscriptions, 1)]),
                  <<Answered(call)>>)

InitRoute ==
    /\ requests = NoRequests
    /\ searchParams = <<>>
    /\ value = Undefined
    /\ validation = [kind |-> "none"]
    /\ outcome = NotCalled
    /\ route \in {"admin", "organization"}
    /\ page \in IF route = "admin" THEN {"users"} ELSE {"invitations", "billing"}
    /\ formData = <<>>
    /\ response = [kind |-> "none"]
    /\ calls = <<>>
    /\ submissions = 0
    /\ actionData = NoActionData
    /\ form = InitialForm(page)
    /\ effectRuns = 0
    /\ banDialog = ClosedBanDialog
    /\ attempts = <<>>
    /\ touched = {}
    /\ method \in {"GET", "POST"}
    /\ params \in [organizationId : OrganizationIds]
    /\ context \in RequestContexts
    /\ stage = "middleware"
    /\ loaderData = [kind |-> "none"]
    /\ routeResult = [kind |-> "none"]

\* the loaders run: the one of the child route (the organization pages'), then
\* the one of the parent route
LoaderStage == IF route = "organization" THEN "childLoader" ELSE "loader"

\* the middleware ended as result: the request goes on, or ends there
AfterMiddleware(result) ==
    IF result.kind = "next"
    THEN /\ stage' = IF method = "POST" THEN "action" ELSE LoaderStage
         /\ routeResult' = routeResult
    ELSE /\ stage' = "done"
         /\ routeResult' = result

AdminMiddleware ==
    /\ route = "admin"
    /\ stage = "middleware"
    /\ AfterMiddleware(adminMiddleware(context))
    /\ UNCHANGED <<route, method, params, context, loaderData, serverVars, clientVars,
                   parseVars, overlapVars, listingVars>>

OrganizationMiddleware ==
    /\ route = "organization"
    /\ stage = "middleware"
    /\ \E listing \in Listings :
          LET end == organizationMiddleware(context, params.organizationId, listing)
          IN  /\ AfterMiddleware(end.result)
              /\ context' = end.context
              /\ calls' = Append(calls, [api |-> "listOrganizations", answer |-> listing,
                                         rejected |-> listing.kind = "reject"])
    /\ UNCHANGED <<route, method, params, loaderData, page, formData, response,
                   submissions, clientVars, parseVars, overlapVars, listingVars>>

\* the action ended the request by throwing, or the loaders run next
AfterAction(end) ==
    IF end.response.kind = "throw"
    THEN /\ stage' = "done"
         /\ routeResult' = Failed(end.response.error)
    ELSE /\ stage' = LoaderStage
         /\ routeResult' = routeResult

\* the action of the child route handles the form data fd of this request and
\* ends as end; its calls follow those the middleware made
HandleInRequest(fd, end) ==
    /\ submissions' = submissions + 1
    /\ formData' = fd
    /\ response' = end.response
    /\ calls' = calls \o end.calls
    /\ UNCHANGED <<page, parseVars, overlapVars, listingVars>>

\* action of admin.users, under the admin route
AdminUsersAction ==
    /\ route = "admin"
    /\ stage = "action"
    /\ \E fd \in UsersFormData, apiOk \in BOOLEAN :
          LET end == usersAction(fd, apiOk)
          IN  HandleInRequest(fd, end) /\ AfterAction(end)
    /\ UNCHANGED <<route, method, params, context, loaderData, clientVars>>

\* action of app.$organizationId.invitations, under the organization route
OrganizationInvitationsAction ==
    /\ route = "organization"
    /\ page = "invitations"
    /\ stage = "action"
    /\ \E fd \in InvitationsFormData : \E results \in ResultsFor(fd) :
          LET end == invitationsAction(fd, results)
          IN  HandleInRequest(fd, end) /\ AfterAction(end)
    /\ UNCHANGED <<route, method, params, context, loaderData, clientVars>>

\* action of app.$organizationId.billing, under the organization route
OrganizationBillingAction ==
    /\ route = "organization"
    /\ page = "billing"
    /\ stage = "action"
    /\ \E fd \in BillingFormData, apiOk \in BOOLEAN :
          LET end == billingAction(fd, apiOk)
          IN  HandleInRequest(fd, end) /\ AfterAction(end)
    /\ UNCHANGED <<route, method, params, context, loaderData, clientVars>>

\* the loader of the child route ended as end
AfterChildLoader(end) ==
    /\ calls' = calls \o end.calls
    /\ loaderData' = end.response
    /\ IF end.response.kind = "throw"
       THEN stage' = "done" /\ routeResult' = Failed(end.response.error)
       ELSE stage' = "loader" /\ routeResult' = routeResult
    /\ UNCHANGED <<route, method, params, context, page, formData, response,
                   submissions, clientVars, parseVars, overlapVars, listingVars>>

\* loader of app.$organizationId.invitations
InvitationsLoader ==
    /\ route = "organization"
    /\ page = "invitations"
    /\ stage = "childLoader"
    /\ \E permission \in PermissionAnswers, listed \in InvitationListings :
          AfterChildLoader(invitationsLoader(params.organizationId, permission, listed))

\* loader of app.$organizationId.billing
BillingLoader ==
    /\ route = "organization"
    /\ page = "billing"
    /\ stage = "childLoader"
    /\ \E listed \in SubscriptionListings :
          AfterChildLoader(billingLoader(params.organizationId, listed))

AdminLoader ==
    /\ route = "admin"
    /\ stage = "loader"
    /\ stage' = "done"
    /\ routeResult' = adminLoader(context)
    /\ UNCHANGED <<route, method, params, context, loaderData, serverVars, clientVars,
                   parseVars, overlapVars, listingVars>>

OrganizationLoader ==
    /\ route = "organization"
    /\ stage = "loader"
    /\ stage' = "done"
    /\ routeResult' = organizationLoader(context, params.organizationId)
    /\ UNCHANGED <<route, method, params, context, loaderData, serverVars, clientVars,
                   parseVars, overlapVars, listingVars>>

NextRoute ==
    \/ AdminMiddleware
    \/ OrganizationMiddleware
    \/ AdminUsersAction
    \/ OrganizationInvitationsAction
    \/ OrganizationBillingAction
    \/ InvitationsLoader
    \/ BillingLoader
    \/ AdminLoader
    \/ OrganizationLoader

SpecRoute == InitRoute /\ [][NextRoute]_vars

(***************************************************************************)
(* Submissions of the invite form that overlap.  The form's onSubmit sends *)
(* the value with submit(); the action handles each request on its own,    *)
(* and between two awaited calls of one request the other request may run. *)
(* A step below is what one request does from one await to the next.       *)
(***************************************************************************)
\* the submissions sent while none has been answered
MaxInFlight == 2

\* what the invite form submits: intent "invite", the typed emails, the role
\* (the form's default one)
InviteFormData ==
    { fd \in InvitationsFormData :
        /\ "intent" \in DOMAIN fd /\ fd["intent"] = "invite"
        /\ DOMAIN fd = {"intent", "emails", "role"}
        /\ fd["role"] = "member"
        /\ fd["emails"] \in {"nobody", "a@a.com", "a@a.com, b@b.com"} }

\* an action that answers a submission of form data already being handled
\* without handling it again
actionReceivesOnce(fd) ==
    IF \E q \in 1..Len(requests) : requests[q].fd = fd /\ requests[q].stage = "loop"
    THEN [fd |-> fd, stage |-> "done", i |-> 0, response |-> Returned([success |-> TRUE])]
    ELSE IF invitationsSchema(fd) # <<>>
    THEN [fd |-> fd, stage |-> "done", i |-> 0,
          response |-> ValidationFailure(invitationsSchema(fd)).response]
    ELSE [fd |-> fd, stage |-> "loop", i |-> 1, response |-> [kind |-> "none"]]

\* the action up to its first awaited call: it parses the form data and
\* returns the error map, or enters the loop over the emails
actionReceives(fd) ==
    IF invitationsSchema(fd) # <<>>
    THEN [fd |-> fd, stage |-> "done", i |-> 0,
          response |-> ValidationFailure(invitationsSchema(fd)).response]
    ELSE [fd |-> fd, stage |-> "loop", i |-> 1, response |-> [kind |-> "none"]]

\* the calls of one pass of the loop, for one email, by request r
inviteStep(r, email, role, result) ==
    LET create == [api |-> "createInvitation", email |-> email, role |-> role,
                   request |-> r]
        repair == [api |-> "updateInvitationRole", email |-> email, role |-> role,
                   request |-> r]
    IN  CASE result = "reject" -> <<Rejected(create)>>
          [] result = "repairRejects" -> <<Answered(create), Rejected(repair)>>
          [] result = "otherRole" -> <<Answered(create), Answered(repair)>>
          [] result = "ok" -> <<Answered(create)>>

InitOverlap ==
    /\ requests = NoRequests
    /\ searchParams = <<>>
    /\ value = Undefined
    /\ validation = [kind |-> "none"]
    /\ outcome = NotCalled
    /\ page = "invitations"
    /\ formData = <<>>
    /\ response = [kind |-> "none"]
    /\ calls = <<>>
    /\ submissions = 0
    /\ actionData = NoActionData
    /\ form = InitialForm("invitations")
    /\ effectRuns = 0
    /\ banDialog = ClosedBanDialog
    /\ attempts = <<>>
    /\ touched = {}
    /\ NoRoute

\* onSubmit: await submit(value, { method: "POST" }); the request reaches the
\* action, which parses it
SubmitInvite ==
    /\ Len(requests) < MaxInFlight
    /\ \E fd \in InviteFormData : requests' = Append(requests, actionReceives(fd))
    /\ UNCHANGED <<serverVars, clientVars, parseVars, routeVars, listingVars>>

\* one pass of the loop of request r: createInvitation, the repair when the
\* role differs, then the next pass, the return after the last email, or
\* the rejection leaving the action
InviteStep(r) ==
    /\ requests[r].stage = "loop"
    /\ \E result \in CallResults :
          LET req == requests[r]
              emails == SplitTrimFilter(req.fd["emails"])
              made == inviteStep(r, emails[req.i], req.fd["role"], result)
          IN  /\ calls' = calls \o made
              /\ requests' =
                    [requests EXCEPT ![r] =
                        IF made[Len(made)].rejected
                        THEN [req EXCEPT !.stage = "done", !.response = Threw("APIError")]
                        ELSE IF req.i = Len(emails)
                        THEN [req EXCEPT !.stage = "done",
                                         !.response = Returned([success |-> TRUE])]
                        ELSE [req EXCEPT !.i = req.i + 1]]
    /\ UNCHANGED <<page, formData, response, submissions, clientVars, parseVars,
                   routeVars, listingVars>>

NextOverlap ==
    \/ SubmitInvite
    \/ \E r \in 1..Len(requests) : InviteStep(r)

SpecOverlap == InitOverlap /\ [][NextOverlap]_vars

(***************************************************************************)
(* The listings of the admin pages.  The loaders of admin.users,           *)
(* admin.sessions and admin.subscriptions read page and filter from the    *)
(* query of the request, ask for one page of rows, and answer a page past  *)
(* the last one with a redirect to the last page.                          *)
(***************************************************************************)
\* Object.fromEntries(url.searchParams): of the entries with one name the last
\* one stays
fromEntries(entries) ==
    [name \in {entries[i][1] : i \in DOMAIN entries} |->
        LET last == CHOOSE i \in DOMAIN entries :
                        /\ entries[i][1] = name
                        /\ \A j \in DOMAIN entries : entries[j][1] = name => j <= i
        IN  entries[last][2]]

\* a set() that gives the first entry named name the value and keeps the
\* other entries of that name
searchParamsSetFirstOnly(entries, name, v) ==
    LET named == {i \in DOMAIN entries : entries[i][1] = name}
    IN  IF named = {} THEN Append(entries, <<name, v>>)
        ELSE LET first == CHOOSE i \in named : \A j \in named : i <= j
             IN  [entries EXCEPT ![first] = <<name, v>>]

\* u.searchParams.set(name, v): the first entry named name takes the value and
\* the other entries of that name are removed; without one, an entry is
\* appended
searchParamsSet(entries, name, v) ==
    LET named == {i \in DOMAIN entries : entries[i][1] = name}
    IN  IF named = {} THEN Append(entries, <<name, v>>)
        ELSE LET first == CHOOSE i \in named : \A j \in named : i <= j
                 numbered == [i \in DOMAIN entries |-> <<i, entries[i]>>]
                 kept == SelectSeq(numbered,
                                   LAMBDA e : e[2][1] # name \/ e[1] = first)
             IN  [i \in DOMAIN kept |->
                    IF kept[i][1] = first THEN <<name, v>> ELSE kept[i][2]]

\* schema.parse(params) of the listing loaders, where it does not throw: page is coerced with
\* Number() and must be an integer of at least 1, and is 1 when absent; filter
\* is trimmed and may be absent
listingSchema(parameters) ==
    LET n == IF "page" \in DOMAIN parameters THEN ToNumber(parameters["page"]) ELSE 1
        trimmed == IF "filter" \in DOMAIN parameters
                   THEN Str(IF parameters["filter"] = " a " THEN "a" ELSE parameters["filter"])
                   ELSE Undefined
    IN  IF n = NaN \/ n < 1 THEN [success |-> FALSE]
        ELSE [success |-> TRUE, data |-> [page |-> n, filter |-> trimmed]]

\* a loader that counts the full pages only
listingLoaderFloor(p, entries, listed) ==
    LET LIMIT == IF p = "subscriptions" THEN 20 ELSE 10
        parsed == listingSchema(fromEntries(entries))
    IN  IF ~parsed.success THEN Ends(Threw("ZodError"), <<>>)
        ELSE LET filter == parsed.data.filter
                 call == [api |-> "list",
                          query |-> [limit |-> LIMIT,
                                     offset |-> (parsed.data.page - 1) * LIMIT,
                                     searchValue |-> IF filter = Str("") THEN Undefined
                                                     ELSE filter],
                          answer |-> listed]
                 floor == listed.total \div LIMIT
                 pageCount == IF floor > 1 THEN floor ELSE 1
             IN  IF listed.kind = "reject"
                 THEN Ends(Threw("APIError"), <<Rejected(call)>>)
                 ELSE IF parsed.data.page > pageCount
                 THEN Ends(RedirectTo(searchParamsSet(entries, "page",
                                                      ToString(pageCount))),
                           <<Answered(call)>>)
                 ELSE Ends(LoaderData([page |-> parsed.data.page,
                                       pageCount |-> pageCount, filter |-> filter]),
                           <<Answered(call)>>)

\* loader of admin.users, admin.sessions and admin.subscriptions, on page p
\* with the query entries; listed is what listUsers, getSessions or
\* getSubscriptions answers.  The rows of the answer are passed on as they are
\* and left out here.
listingLoader(p, entries, listed) ==
    LET LIMIT == IF p = "subscriptions" THEN 20 ELSE 10
        parsed == listingSchema(fromEntries(entries))
    IN  IF ~parsed.success THEN Ends(Threw("ZodError"), <<>>)
        ELSE LET filter == parsed.data.filter
                 call == [api |-> "list",
                          query |-> [limit |-> LIMIT,
                                     offset |-> (parsed.data.page - 1) * LIMIT,
                                     searchValue |-> IF filter = Str("") THEN Undefined
                                                     ELSE filter],
                          answer |-> listed]
                 ceil == (listed.total + LIMIT - 1) \div LIMIT
                 pageCount == IF ceil > 1 THEN ceil ELSE 1
             IN  IF listed.kind = "reject"
                 THEN Ends(Threw("APIError"), <<Rejected(call)>>)
                 ELSE IF parsed.data.page > pageCount
                 THEN Ends(RedirectTo(searchParamsSet(entries, "page",
                                                      ToString(pageCount))),
                           <<Answered(call)>>)
                 ELSE Ends(LoaderData([page |-> parsed.data.page,
                                       pageCount |-> pageCount, filter |-> filter]),
                           <<Answered(call)>>)

\* what the listing call of page p may answer: it rejects, or reports the
\* rows there are in all
ListingAnswers(p) ==
    {[kind |-> "reject"]} \cup
    { [kind |-> "list", total |-> IF p = "subscriptions" THEN 2 * t ELSE t] :
        t \in {0, 1, 10, 51, 60, 61, 70, 121, 130} }

InitListing ==
    /\ requests = NoRequests
    /\ searchParams = <<>>
    /\ value = Undefined
    /\ validation = [kind |-> "none"]
    /\ outcome = NotCalled
    /\ page \in {"users", "sessions", "subscriptions"}
    /\ formData = <<>>
    /\ response = [kind |-> "none"]
    /\ calls = <<>>
    /\ submissions = 0
    /\ actionData = NoActionData
    /\ form = InitialForm(page)
    /\ effectRuns = 0
    /\ banDialog = ClosedBanDialog
    /\ attempts = <<>>
    /\ touched = {}
    /\ NoRoute

\* the browser asks for the page with some query: typed, or a link of the
\* pagination or the search form; one navigation is followed to its end
ListingRequest ==
    /\ loaderData.kind = "none"
    /\ \E pageEntry \in {<<>>} \cup {<<<<"page", s>>>> : s \in {"", "0", "1", "6", "7",
                                                               "13", "x"}},
          filterEntry \in {<<>>} \cup {<<<<"filter", s>>>> : s \in {"", "a", " a "}},
          again \in {<<>>, <<<<"page", "1">>>>, <<<<"page", "13">>>>},
          listed \in ListingAnswers(page) :
          LET entries == pageEntry \o filterEntry \o again
              end == listingLoader(page, entries, listed)
          IN  /\ searchParams' = entries
              /\ loaderData' = end.response
              /\ calls' = end.calls
    /\ UNCHANGED <<page, formData, response, submissions, clientVars, parseVars,
                   overlapVars, route, method, params, context, stage, routeResult>>

\* the browser follows the redirect of the loader
FollowRedirect ==
    /\ loaderData.kind = "redirect"
    /\ \E listed \in ListingAnswers(page) :
          LET end == listingLoader(page, loaderData.to, listed)
          IN  /\ searchParams' = loaderData.to
              /\ loaderData' = end.response
              /\ calls' = calls \o end.calls
    /\ UNCHANGED <<page, formData, response, submissions, clientVars, parseVars,
                   overlapVars, route, method, params, context, stage, routeResult>>

NextListing ==
    \/ ListingRequest
    \/ FollowRedirect

SpecListing == InitListing /\ [][NextListing]_vars

(***************************************************************************)
(* Reading a call of parseValueWithSchema.                                 *)
(***************************************************************************)
Called == outcome # NotCalled

\* the issues the schema reported (none for a Promise or a successful result)
ReportedIssues ==
    IF validation.kind = "sync" /\ validation.hasIssues THEN validation.issues ELSE <<>>

\* the places (key, position) of the returned fields record that hold issue i
PlacesOf(i) ==
    IF outcome.kind # "object" THEN {}
    ELSE { kp \in UNION { {<<k, n>> : n \in DOMAIN outcome.fields[k]}
                          : k \in DOMAIN outcome.fields }
           : outcome.fields[kp[1]][kp[2]] = i }

\* the issues of the form-level slot of the returned error map (the returned
\* object has a fields property only)
FormSlot ==
    IF outcome.kind = "object" /\ "form" \in DOMAIN outcome THEN outcome.form ELSE <<>>

IsRootIssue(issue) == IssuePathOf(issue) = <<>>

\* the documented notation, read off the validated value: the container a
\* prefix of the path leads to, and the key the whole path is written as
RECURSIVE Reach(_, _)
Reach(v, segs) ==
    IF segs = <<>> THEN v
    ELSE LET container == Reach(v, SubSeq(segs, 1, Len(segs) - 1))
             last == segs[Len(segs)]
         IN  IF container.t = "array"
             THEN (IF Number(last) # NaN /\ Number(last) + 1 \in DOMAIN container.items
                   THEN container.items[Number(last) + 1] ELSE Undefined)
             ELSE IF container.t = "object" /\ last.s \in DOMAIN container.props
             THEN container.props[last.s]
             ELSE Undefined

IsIndexSegment(v, segs, j) ==
    /\ Reach(v, SubSeq(segs, 1, j - 1)).t = "array"
    /\ Number(segs[j]) # NaN

RECURSIVE Notation(_, _)
Notation(v, segs) ==
    IF segs = <<>> THEN ""
    ELSE LET before == Notation(v, SubSeq(segs, 1, Len(segs) - 1))
             last == segs[Len(segs)]
         IN  IF IsIndexSegment(v, segs, Len(segs))
             THEN before \o "[" \o ToString(Number(last)) \o "]"
             ELSE IF before = "" THEN last.s
             ELSE before \o "." \o last.s

\* a call with exactly one issue, of the given path, on the given value
SoleIssue(v, segs) ==
    /\ Called
    /\ value = v
    /\ Len(ReportedIssues) = 1
    /\ IssuePathOf(ReportedIssues[1]) = segs

(***************************************************************************)
(* C1: every issue with a non-empty path sits in exactly one place of the  *)
(* returned fields record, under the key that is its normalized path:      *)
(* none is dropped, none is stored twice.                                  *)
(***************************************************************************)
C1_EveryPathIssueStoredOnce ==
    outcome.kind = "object" =>
        \A i \in DOMAIN ReportedIssues :
            ~IsRootIssue(ReportedIssues[i]) =>
                /\ Cardinality(PlacesOf(i)) = 1
                /\ \A kp \in PlacesOf(i) :
                      kp[1] = Notation(value, IssuePathOf(ReportedIssues[i]))

(***************************************************************************)
(* C2: the key of a stored issue follows the documented notation: [n] for  *)
(* an array index, .name for an object property, no dot before the first   *)
(* rendered segment.  ["user","name"] against {user:{name:"x"}} gives      *)
(* "user.name"; ["users",0,"name"] against {users:[{name:"x"}]} gives      *)
(* "users[0].name".                                                        *)
(***************************************************************************)
C2_KeyFollowsNotation ==
    /\ outcome.kind = "object" =>
          \A i \in DOMAIN ReportedIssues : \A kp \in PlacesOf(i) :
              kp[1] = Notation(value, IssuePathOf(ReportedIssues[i]))
    /\ SoleIssue(Obj("user" :> Obj("name" :> Str("x"))),
                 <<StrKey("user"), StrKey("name")>>)
          => outcome = ReturnsFields("user.name" :> <<1>>)
    /\ SoleIssue(Obj("users" :> Arr(<<Obj("name" :> Str("x"))>>)),
                 <<StrKey("users"), NumKey(0), StrKey("name")>>)
          => outcome = ReturnsFields("users[0].name" :> <<1>>)

C2_Witness ==
    /\ SoleIssue(Obj("users" :> Arr(<<Obj("name" :> Str("x"))>>)),
                 <<StrKey("users"), NumKey(0), StrKey("name")>>)
    /\ outcome.kind = "object"
    /\ "users[0].name" \in DOMAIN outcome.fields

(***************************************************************************)
(* C3: a root-level issue (empty path) does not disappear: the result of   *)
(* the validation attempt carries it in the form-level slot.               *)
(***************************************************************************)
C3_RootIssueInFormSlot ==
    Called =>
        \A i \in DOMAIN ReportedIssues :
            IsRootIssue(ReportedIssues[i]) =>
                \E n \in DOMAIN FormSlot : FormSlot[n] = i

(***************************************************************************)
(* C4: no root-level issue appears in the field map: no entry of the       *)
(* returned fields record holds an issue whose path is empty or missing,   *)
(* and the empty string is never a key of the record.                      *)
(***************************************************************************)
C4_NoRootIssueInFields ==
    outcome.kind = "object" =>
        /\ "" \notin DOMAIN outcome.fields
        /\ \A i \in DOMAIN ReportedIssues :
              IsRootIssue(ReportedIssues[i]) => PlacesOf(i) = {}

C4_Witness ==
    /\ outcome.kind = "object"
    /\ \E i \in DOMAIN ReportedIssues : ~ReportedIssues[i].hasPath
    /\ \E i \in DOMAIN ReportedIssues :
          ReportedIssues[i].hasPath /\ ReportedIssues[i].path = <<>>
    /\ DOMAIN outcome.fields # {}

(***************************************************************************)
(* C5: when validate returns a Promise the call fails with an error and    *)
(* returns no error map, partial or empty.                                 *)
(***************************************************************************)
C5_AsyncResultThrows ==
    (Called /\ validation.kind = "promise") => outcome = Thrown

C5_Witness == validation.kind = "promise" /\ outcome.kind = "throw"

(***************************************************************************)
(* C6: when walking an issue path reaches a null or absent intermediate    *)
(* value the call does not fail, every later segment is written as a       *)
(* property (.key, never [n]), and the issue is stored under the resulting *)
(* path.                                                                   *)
(***************************************************************************)
HitsMissing(v, segs, j) ==
    /\ j \in 1..(Len(segs) - 1)
    /\ Reach(v, SubSeq(segs, 1, j)).t \in {"null", "undefined"}

C6_MissingIntermediateStillStored ==
    Called =>
        \A i \in DOMAIN ReportedIssues :
            LET segs == IssuePathOf(ReportedIssues[i])
            IN  \A j \in DOMAIN segs :
                    HitsMissing(value, segs, j) =>
                        /\ outcome.kind = "object"
                        /\ \A m \in (j + 1)..Len(segs) :
                              LET before == Notation(value, SubSeq(segs, 1, m - 1))
                              IN  Notation(value, SubSeq(segs, 1, m)) =
                                    IF before = "" THEN segs[m].s
                                    ELSE before \o "." \o segs[m].s
                        /\ \E kp \in PlacesOf(i) : kp[1] = Notation(value, segs)

(***************************************************************************)
(* C7: the call returns undefined when the schema reports no issues        *)
(* (issues absent or an empty list), and otherwise an object with a fields *)
(* record that maps field paths to lists of the reported issues.           *)
(***************************************************************************)
C7_UndefinedOrFields ==
    (Called /\ validation.kind = "sync") =>
        IF Len(ReportedIssues) = 0
        THEN outcome = ReturnsUndefined
        ELSE /\ outcome.kind = "object"
             /\ DOMAIN outcome = {"kind", "fields"}
             /\ \A k \in DOMAIN outcome.fields :
                   /\ Len(outcome.fields[k]) > 0
                   /\ \A n \in DOMAIN outcome.fields[k] :
                         outcome.fields[k][n] \in DOMAIN ReportedIssues

C7_Witness ==
    /\ validation.kind = "sync"
    /\ ~validation.hasIssues
    /\ outcome = ReturnsUndefined

(***************************************************************************)
(* Reading the end of a request.                                           *)
(***************************************************************************)
\* the action returned to its UI (it neither threw nor answered a redirect)
ReturnedToUI == response.kind \in {"data", "undefined", "null"}

\* { onSubmit: { form?: string, fields: { [path]: { message: string }[] } } }
WellFormedErrorMap(em) ==
    /\ DOMAIN em = {"onSubmit"}
    /\ "fields" \in DOMAIN em.onSubmit
    /\ DOMAIN em.onSubmit \subseteq {"form", "fields"}
    /\ "form" \in DOMAIN em.onSubmit => em.onSubmit.form \in STRING
    /\ \A k \in DOMAIN em.onSubmit.fields :
          \A i \in DOMAIN em.onSubmit.fields[k] :
             /\ DOMAIN em.onSubmit.fields[k][i] = {"message"}
             /\ em.onSubmit.fields[k][i].message \in STRING

\* { success: boolean, errorMap?: ... }
HasWireShape(r) ==
    /\ r.kind = "data"
    /\ "success" \in DOMAIN r.data
    /\ r.data.success \in BOOLEAN
    /\ "errorMap" \in DOMAIN r.data => WellFormedErrorMap(r.data.errorMap)

\* the issues the schema of the page's action reports for the last form data
SchemaIssues ==
    CASE page = "users" -> usersSchema(formData)
      [] page = "login" -> loginSchema(formData)
      [] page = "form5" -> form5Schema(formData)
      [] page = "invitations" -> invitationsSchema(formData)
      [] page = "invitationsLegacy" -> legacyInvitationsSchema(formData)
      [] page = "billing" -> billingSchema(formData)
      [] page = "profile" -> <<>>

\* the last request carried form data that fails the schema of its action
FailedValidation == submissions >= 1 /\ SchemaIssues # <<>>

\* C8 as stated: every result an action returns to its UI has the wire shape
\* { success, errorMap? }, with success present and boolean and any errorMap
\* of the shape { onSubmit: { form?, fields: { [path]: { message }[] } } }.
C8_EveryResultHasWireShape == ReturnedToUI => HasWireShape(response)

\* C8 as amended: every result the users, login and invitations actions (the
\* current and the earlier one) return has the wire shape
\* { success, errorMap? }; form5 returns { errorMap }, well-formed but without
\* success, on a validation failure and nothing otherwise; billing returns
\* null.
C8_WireShapeOfTheActionsThatReportSuccess ==
    ReturnedToUI =>
        /\ page \in {"users", "login", "invitations", "invitationsLegacy"}
              => HasWireShape(response)
        /\ page = "form5" =>
              \/ response.kind = "undefined"
              \/ /\ response.kind = "data"
                 /\ DOMAIN response.data = {"errorMap"}
                 /\ WellFormedErrorMap(response.data.errorMap)
        /\ page = "billing" => response.kind = "null"

\* the users action answered a failed validation with success false and an
\* error map that names a field
C8_Witness ==
    /\ page = "users"
    /\ response.kind = "data"
    /\ "errorMap" \in DOMAIN response.data
    /\ response.data.success = FALSE
    /\ DOMAIN response.data.errorMap.onSubmit.fields # {}

\* C9 as stated: for every route action, form data that fails schema
\* validation is reported as a FormErrorMap in the returned result, and never
\* ends the request as a thrown failure.
C9_ValidationFailureIsReported ==
    FailedValidation => HasErrorMap(response) /\ response.kind # "throw"

\* C9 as amended: the users, login, form5 and invitations actions report form
\* data that fails schema validation as a FormErrorMap in the returned result,
\* without throwing and without calling an external service; the billing
\* action throws the ZodError of schema.parse instead, and the earlier
\* invitations action returns success false with details and
\* validationErrors, not a FormErrorMap.
C9_ValidationFailureReportedExceptBilling ==
    FailedValidation =>
        /\ page \in {"users", "login", "form5", "invitations"} =>
              /\ HasErrorMap(response)
              /\ WellFormedErrorMap(response.data.errorMap)
              /\ \E k \in DOMAIN response.data.errorMap.onSubmit.fields :
                    response.data.errorMap.onSubmit.fields[k] # <<>>
              /\ calls = <<>>
        /\ page = "billing" => response = Threw("ZodError")
        /\ page = "invitationsLegacy" =>
              /\ response.kind = "data"
              /\ DOMAIN response.data = {"success", "details", "validationErrors"}
              /\ response.data.success = FALSE

\* the users action was sent a ban reason longer than allowed and reported it
C9_Witness ==
    /\ page = "users"
    /\ FailedValidation
    /\ HasErrorMap(response)
    /\ "banReason" \in DOMAIN response.data.errorMap.onSubmit.fields

(***************************************************************************)
(* Reading the form state.                                                 *)
(***************************************************************************)
\* the errors the form shows: those of each field, and the form-level ones
Displayed(f) ==
    [ fields |-> [name \in DOMAIN f.fieldMeta |-> FieldErrorsFrom(f, name, 1)],
      form |-> FormErrorsFrom(f, 1) ]

\* the errors the server error map em holds for a field
ServerErrorsOf(em, name) ==
    IF name \in DOMAIN em.onSubmit.fields THEN em.onSubmit.fields[name] ELSE <<>>

\* the step is a run of the component's effect
EffectRan == effectRuns' = effectRuns + 1

\* the components whose effect applies the server error map to the form (the
\* effect of the invitations component only resets the form on success)
AppliesErrorMap == page \in {"users", "login", "form5"}

\* C10: when the effect runs again with the same action data, the displayed
\* field errors and form errors are the same after the run as before it; and
\* after every run that applies a server error map each field displays the
\* messages the map holds for it, each once.
C10_ReapplyingIsIdempotent ==
    [][ (EffectRan /\ HasErrorMap(actionData)) =>
          /\ effectRuns >= 1 => Displayed(form)' = Displayed(form)
          /\ AppliesErrorMap =>
                \A name \in DOMAIN form.fieldMeta :
                   Displayed(form)'.fields[name]
                      = ServerErrorsOf(actionData.data.errorMap, name) ]_vars

\* the effect has run twice with the same server error map, and a field
\* displays an error
C10_Witness ==
    /\ effectRuns >= 2
    /\ HasErrorMap(actionData)
    /\ \E name \in DOMAIN form.fieldMeta : Displayed(form).fields[name] # <<>>

\* the issues of the last request's form data that lie under field k
IssuesUnder(k) ==
    SelectSeq(SchemaIssues, LAMBDA x : x.path # <<>> /\ x.path[1].s = k)

\* the fields record holds the messages of the issues of this attempt, each
\* once and in order, and nothing else
HoldsOnlyThisAttempt(fields) ==
    /\ DOMAIN fields = {SchemaIssues[i].path[1].s :
                           i \in {j \in DOMAIN SchemaIssues : SchemaIssues[j].path # <<>>}}
    /\ \A k \in DOMAIN fields :
          fields[k] = [i \in DOMAIN IssuesUnder(k) |->
                          [message |-> IssuesUnder(k)[i].message]]

\* C11: the error map an action returns for a failed validation holds only the
\* issues of that request's form data; and once the component's effect has
\* applied it, each field's errors of the source onSubmit are those of this
\* map, so no message of an earlier attempt's map remains for that source.
C11_NewPassReplacesPriorMap ==
    /\ (HasErrorMap(response) /\ "onSubmit" \in DOMAIN response.data.errorMap) =>
          HoldsOnlyThisAttempt(response.data.errorMap.onSubmit.fields)
    /\ (AppliesErrorMap /\ effectRuns >= 1 /\ HasErrorMap(actionData)) =>
          \A name \in DOMAIN form.fieldMeta :
             /\ "onSubmit" \in DOMAIN form.fieldMeta[name].errorMap
             /\ form.fieldMeta[name].errorMap["onSubmit"]
                   = ServerErrorsOf(actionData.data.errorMap, name)

\* the component received two error maps, the earlier with a message for a
\* field that the later does not hold, and the effect has applied the later
C11_Witness ==
    /\ AppliesErrorMap
    /\ Len(attempts) = 2
    /\ HasErrorMap(attempts[1])
    /\ HasErrorMap(attempts[2])
    /\ actionData = attempts[2]
    /\ effectRuns >= 1
    /\ \E name \in DOMAIN form.fieldMeta :
          \E i \in DOMAIN ServerErrorsOf(attempts[1].data.errorMap, name) :
             \A j \in DOMAIN ServerErrorsOf(attempts[2].data.errorMap, name) :
                ServerErrorsOf(attempts[2].data.errorMap, name)[j]
                   # ServerErrorsOf(attempts[1].data.errorMap, name)[i]

(***************************************************************************)
(* Reading a request through a parent route.                               *)
(***************************************************************************)
\* the request has got past the middleware: its action or loader is next, or
\* has run (a rejected call in the middleware itself ends the request there)
PastMiddleware ==
    \/ stage \in {"action", "loader"}
    \/ submissions > 0
    \/ routeResult.kind = "data"
    \/ routeResult.kind = "throw" /\ routeResult.error # "APIError"

\* the session of the request has a user whose role is admin
SessionUserIsAdmin ==
    /\ context.session # Null
    /\ "role" \in DOMAIN context.session.user
    /\ context.session.user.role = "admin"

\* C12: a request to an admin route gets past adminMiddleware, to the action
\* and the loader, only when the session has a user whose role is admin; with
\* no session user it ends as a redirect to /login (also when nothing could be
\* said of a role), with a user of any other role as a 403 response; and the
\* admin loader then always finds its user.
C12_AdminOnlyPastMiddleware ==
    route = "admin" =>
        /\ PastMiddleware => SessionUserIsAdmin
        /\ (stage # "middleware" /\ context.session = Null) =>
              stage = "done" /\ routeResult = RedirectTo("/login")
        /\ (stage # "middleware" /\ context.session # Null /\ ~SessionUserIsAdmin) =>
              stage = "done" /\ routeResult = ResponseWith(403)
        /\ routeResult.kind = "data" => routeResult.data.user = context.session.user
        /\ routeResult # Failed("Missing user session")

\* a signed-in user who is no admin asked for an admin route and got 403
C12_Witness ==
    /\ route = "admin"
    /\ stage = "done"
    /\ context.session # Null
    /\ ~SessionUserIsAdmin
    /\ routeResult = ResponseWith(403)

\* what listOrganizations answered to the middleware of this request
Listing == calls[1].answer

\* organizationId is the id of one of the organizations listed
IsListed ==
    /\ Listing.kind = "list"
    /\ \E i \in DOMAIN Listing.organizations :
          Listing.organizations[i].id = params.organizationId

\* the context is as the server entry handed it over
NotExtended == context \in RequestContexts

C16_ContextExtendedOnlyByMiddleware ==
    [][ context' # context =>
          /\ route = "organization"
          /\ stage = "middleware"
          /\ DOMAIN context' = DOMAIN context \cup {"organization", "organizations"}
          /\ \A k \in DOMAIN context : context'[k] = context[k] ]_vars

\* a POST under an organization has run middleware, action and loader, and the
\* context holds the organization next to the four fields it was handed with
C16_Witness ==
    /\ route = "organization"
    /\ stage = "done"
    /\ submissions = 1
    /\ routeResult.kind = "data"
    /\ DOMAIN context = {"session", "authService", "repository", "env",
                         "organization", "organizations"}
    /\ [k \in {"session", "authService", "repository", "env"} |-> context[k]]
          \in RequestContexts

\* the external calls made by loaders; every other logged call but
\* listOrganizations is made by an action
LoaderApis == {"hasPermission", "listInvitations", "listActiveSubscriptions"}

\* the handler in which the call was made ended by throwing, with no result
HandlerReturnedNothing(call) ==
    IF call.api \in LoaderApis
    THEN loaderData = Threw("APIError")
    ELSE response = Threw("APIError")

\* C14: a rejected external call inside an action or loader is neither caught
\* nor retried: once such a call is in the log the request has failed with the
\* call's error, the handler that made it returned no result, no call was
\* made after it, and the rejected call is in the log exactly once.
C14_RejectedCallFailsTheRequest ==
    \A i \in 1..Len(calls) :
        (calls[i].rejected /\ calls[i].api # "listOrganizations") =>
            /\ stage = "done"
            /\ routeResult = Failed("APIError")
            /\ HandlerReturnedNothing(calls[i])
            /\ i = Len(calls)
            /\ Cardinality({j \in 1..Len(calls) : calls[j] = calls[i]}) = 1

\* the invite action created one invitation and the next createInvitation
\* rejected: the request failed after the middleware's call and these two
C14_Witness ==
    /\ page = "invitations"
    /\ stage = "done"
    /\ Len(calls) = 3
    /\ calls[2].api = "createInvitation" /\ ~calls[2].rejected
    /\ calls[3].api = "createInvitation" /\ calls[3].rejected
    /\ routeResult = Failed("APIError")
    /\ response = Threw("APIError")

\* the emails for which request r has called createInvitation, in call order
InvitedBy(r) ==
    LET mine == SelectSeq(calls, LAMBDA c : c.api = "createInvitation" /\ c.request = r)
    IN  [j \in 1..Len(mine) |-> mine[j].email]

\* the two submissions carry the same form data and their calls alternate
Overlapped ==
    /\ Len(requests) = 2
    /\ requests[1].fd = requests[2].fd
    /\ Len(calls) = 4
    /\ \A j \in 1..4 : calls[j].request = IF j \in {1, 3} THEN 1 ELSE 2

\* C15: submissions are not deduplicated: every submission that passes the
\* schema is processed whatever else is in flight; it calls createInvitation
\* for its own emails, in order, one email for each pass of its loop it has
\* done, and all of them once it has returned { success: true }.
C15_EachSubmissionMakesItsOwnCalls ==
    \A r \in 1..Len(requests) :
        LET req == requests[r]
            emails == SplitTrimFilter(req.fd["emails"])
        IN  invitationsSchema(req.fd) = <<>> =>
              /\ req.stage = "loop" =>
                    InvitedBy(r) = [j \in 1..(req.i - 1) |-> emails[j]]
              /\ req.response = Returned([success |-> TRUE]) => InvitedBy(r) = emails
              /\ req.stage = "done" => req.response.kind \in {"data", "throw"}
              /\ req.response.kind = "throw" =>
                    /\ InvitedBy(r) # <<>>
                    /\ \A j \in 1..Len(InvitedBy(r)) : InvitedBy(r)[j] = emails[j]

\* two submissions of the same two emails overlapped, their calls
\* alternating, and both returned success: each email was invited twice
C15_Witness ==
    /\ Overlapped
    /\ \A r \in 1..2 : requests[r].response = Returned([success |-> TRUE])
    /\ InvitedBy(1) = <<"a@a.com", "b@b.com">>
    /\ InvitedBy(2) = InvitedBy(1)

\* C17: closing the ban dialog clears the selected user: whenever the dialog
\* state has isOpen = false, its userId is undefined.
C17_ClosedDialogHasNoUser == ~banDialog.isOpen => banDialog.userId = Undefined

\* a ban was submitted from the dialog and answered, and the dialog has been
\* closed since: the remount on the cleared userId dropped the answer
C17_Witness ==
    /\ page = "users"
    /\ submissions >= 1
    /\ response = Returned([success |-> TRUE])
    /\ actionData = NoActionData
    /\ ~banDialog.isOpen
    /\ banDialog.userId = Undefined

\* form1's validator has run on the submitted value
Form1Validated == page = "form1" /\ outcome.kind = "validated"

\* form5's action has handled form data with the age s
Form5Submitted(s) ==
    /\ page = "form5"
    /\ submissions >= 1
    /\ "age" \in DOMAIN formData
    /\ formData["age"] = s

\* an error map with a message for the field age and a form-level message
HasBothMessages(em) ==
    /\ em # Undefined
    /\ "form" \in DOMAIN em
    /\ "age" \in DOMAIN em.fields

\* C19 as stated: submitting the age 13 returns a FormErrorMap whose
\* fields.age holds the field message and whose form holds the form-level
\* message.
C19_Age13IsRejected ==
    /\ (Form1Validated /\ value.age = 13) => HasBothMessages(outcome.result)
    /\ Form5Submitted("13") =>
          /\ HasErrorMap(response)
          /\ HasBothMessages(response.data.errorMap.onSubmit)

\* C19, amended: no rule of the code rejects 13.  form1's validator rejects
\* the ages below 5, with a map whose fields.age is its field message and
\* whose form is its form-level message, and returns undefined for any other
\* age, 13 included; form5's action rejects the ages below 7 with a map that
\* has a message for age and no form-level message, and returns nothing for
\* "13".
C19_RulesRejectBelowTheirThreshold ==
    /\ Form1Validated =>
          IF value.age \in {0, 4}
          THEN /\ HasBothMessages(outcome.result)
               /\ outcome.result.form = "form: Must be 5 or older to sign"
               /\ outcome.result.fields.age = "form: field: Must be 5 or older to sign"
          ELSE outcome.result = Undefined
    /\ Form5Submitted("13") => response = ReturnedNothing
    /\ Form5Submitted("6") =>
          /\ HasErrorMap(response)
          /\ "form" \notin DOMAIN response.data.errorMap.onSubmit
          /\ response.data.errorMap.onSubmit.fields["age"]
                = <<[message |-> "You must be 7 or older to make an account."]>>

\* form1 was submitted with the age 4 and its validator returned both messages
C19_Witness ==
    /\ Form1Validated
    /\ value.age = 4
    /\ HasBothMessages(outcome.result)

\* the server rejected the username the profile form posted last
ServerRejectedUsername ==
    /\ page = "profile"
    /\ HasErrorMap(actionData)
    /\ "username" \in DOMAIN actionData.data.errorMap.onServer.fields

\* the state the profile component renders
ProfileFormState == mergeForm(form, actionData)

\* the component's <pre> prints form.state.errorMap.onServer?.fields, and it
\* holds the server's message for the username
ShowsServerMessage ==
    /\ "onServer" \in DOMAIN ProfileFormState.errorMap
    /\ ProfileFormState.errorMap.onServer.fields.username
          = "That username is already taken."

\* the client's schema accepted the username posted last
ClientAccepted == Len(formData["username"]) >= ProfileMinChars

\* C18: in the profile form a server-rejected field shows the server's
\* message while the input is not marked invalid: once the server has
\* rejected the username, the rendered form state holds the server's message
\* under errorMap.onServer, where the component prints it, the errors of the
\* field's meta do not include it, and the input is marked invalid only if
\* the client's own schema rejected the value.
C18_ServerMessageWithoutInvalidMark ==
    ServerRejectedUsername =>
        /\ ShowsServerMessage
        /\ \A i \in DOMAIN FieldErrorsFrom(ProfileFormState, "username", 1) :
              FieldErrorsFrom(ProfileFormState, "username", 1)[i].message
                 # "That username is already taken."
        /\ isInvalid("username") <=> ~ClientAccepted

\* the username "abc" passed the client's schema and was rejected by the
\* server: the field is touched, the message is on the page, and the input
\* is not marked invalid
C18_Witness ==
    /\ ServerRejectedUsername
    /\ formData["username"] = "abc"
    /\ "username" \in touched
    /\ ShowsServerMessage
    /\ ~isInvalid("username")

\* the segment is numeric: a number, or a string that is a decimal literal
IsNumericSegment(seg) == seg.s # "" /\ Number(seg) # NaN

\* the path the walk has built after the first j segments of segs
BuiltAfter(v, segs, j) ==
    WalkPath([path |-> "", currentValue |-> v], SubSeq(segs, 1, j)).path

\* C21: while a path is normalized, a segment is rendered as [index] exactly
\* when the container reached so far is an array and the segment is numeric;
\* in every other case (object, primitive, null or absent container, or a
\* segment that is not numeric) it is rendered as .key, without the dot when
\* nothing was rendered before it.
C21_IndexExactlyForNumericInArray ==
    Called =>
        \A i \in DOMAIN ReportedIssues :
            LET segs == IssuePathOf(ReportedIssues[i])
            IN  \A j \in DOMAIN segs :
                    LET before == BuiltAfter(value, segs, j - 1)
                        container == Reach(value, SubSeq(segs, 1, j - 1))
                    IN  BuiltAfter(value, segs, j) =
                            IF container.t = "array" /\ IsNumericSegment(segs[j])
                            THEN before \o "[" \o ToString(Number(segs[j])) \o "]"
                            ELSE IF before = "" THEN segs[j].s
                            ELSE before \o "." \o segs[j].s

(***************************************************************************)
(* C22: a successful invite leaves every invitation with the requested role *)
(***************************************************************************)
InviteSucceeded ==
    /\ page \in {"invitations", "invitationsLegacy"}
    /\ submissions > 0
    /\ "intent" \in DOMAIN formData /\ formData["intent"] = "invite"
    /\ response = Returned([success |-> TRUE])

\* the createInvitation calls of the request, in call order
Creations == SelectSeq(calls, LAMBDA c : c.api = "createInvitation")

\* C22: when an invite action returns success, createInvitation was called
\* once for each submitted email, in order and with the requested role, and
\* every invitation that came back with another role is repaired at once:
\* the very next call is an answered updateInvitationRole for that
\* invitation's id with the requested role, made before the next email's
\* createInvitation.
C22_SuccessfulInviteCarriesRequestedRole ==
    InviteSucceeded =>
        LET emails == SplitTrimFilter(formData["emails"])
        IN  /\ Len(Creations) = Len(emails)
            /\ \A j \in DOMAIN emails :
                   /\ Creations[j].email = emails[j]
                   /\ Creations[j].role = formData["role"]
                   /\ ~Creations[j].rejected
            /\ \A k \in DOMAIN calls :
                   (calls[k].api = "createInvitation"
                        /\ calls[k].result.role # formData["role"])
                   => /\ k + 1 \in DOMAIN calls
                      /\ calls[k + 1] =
                            Answered([api |-> "updateInvitationRole",
                                      invitationId |-> ToNumber(calls[k].result.id),
                                      role |-> formData["role"]])

\* two emails were invited and the first invitation came back with another
\* role, was repaired, and the second was then created
C22_RepairedBeforeNextEmail ==
    /\ InviteSucceeded
    /\ Len(calls) = 3
    /\ calls[1].api = "createInvitation" /\ calls[1].result.role # formData["role"]
    /\ calls[2].api = "updateInvitationRole"
    /\ calls[3].api = "createInvitation" /\ calls[3].email = "b@b.com"

(***************************************************************************)
(* C23: the ban dialog reacts only to results for the selected user        *)
(***************************************************************************)
\* what holds of the dialog and the result its fetcher carries
BanDialogHoldsOwnResult ==
    page = "users" =>
        /\ actionData # NoActionData =>
              banDialog.isOpen /\ banDialog.userId # Undefined
        /\ HasSuccess(actionData) => effectRuns = 0
        /\ (HasErrorMap(actionData) /\ effectRuns > 0) =>
              /\ banDialog.isOpen
              /\ form = setErrorMap(form, actionData.data.errorMap)

\* what holds of every step of the users page
BanDialogStep ==
    page = "users" =>
        /\ banDialog'.userId # banDialog.userId =>
              actionData' = NoActionData /\ form' = InitialForm("users")
        /\ (actionData' # actionData /\ actionData' # NoActionData) =>
              /\ banDialog' = banDialog
              /\ formData'["intent"] = "ban"
              /\ formData'["userId"] = banDialog.userId.s
        /\ (HasErrorMap(actionData) /\ banDialog'.userId = banDialog.userId) =>
              banDialog' = banDialog

\* C23: the result the ban dialog holds was obtained by a submission for the
\* selected user, made while the dialog was open for that user.  Once the
\* effect has seen a successful result the dialog is closed; a result with
\* an errorMap has its errors applied and leaves the dialog open.  Whenever
\* the selected user changes (another user is chosen, or the dialog is closed
\* and opened again) the dialog starts with no result and an unmarked form,
\* so a result obtained earlier neither closes nor marks it.
C23_BanDialogReactsToItsOwnResult ==
    [] BanDialogHoldsOwnResult /\ [][BanDialogStep]_vars

\* a ban of u1 through the dialog succeeded, the dialog was then opened for
\* u2, and its effect has run without closing it
C23_OpenedForAnotherUserAfterSuccess ==
    /\ page = "users"
    /\ response = Returned([success |-> TRUE])
    /\ formData = ("intent" :> "ban") @@ ("userId" :> "u1") @@ ("banReason" :> "")
    /\ banDialog = [isOpen |-> TRUE, userId |-> Str("u2")]
    /\ effectRuns > 0
    /\ form = InitialForm("users")

(***************************************************************************)
(* C24, C25: the pages of the admin listings                               *)
(***************************************************************************)
\* the listing call of the request the loader has answered
ListingCall == calls[Len(calls)]

\* Math.ceil(total / limit), by its definition
CeilOf(total, limit) ==
    CHOOSE n \in 0..total : n * limit >= total /\ (n = 0 \/ (n - 1) * limit < total)

\* max(1, ceil(total / LIMIT)) for the rows the listing call found
PageCountOf(call) ==
    LET c == CeilOf(call.answer.total, call.query.limit) IN IF c > 1 THEN c ELSE 1

LimitOf(p) == IF p = "subscriptions" THEN 20 ELSE 10

PageEntries(entries) == SelectSeq(entries, LAMBDA e : e[1] = "page")
OtherParameters(entries) == SelectSeq(entries, LAMBDA e : e[1] # "page")

\* the page the request asks for: the last page entry of its query, 1 without
RequestedPage ==
    LET asked == PageEntries(searchParams)
    IN  IF asked = <<>> THEN 1 ELSE ToNumber(asked[Len(asked)][2])

\* C24: every data result of a listing loader has
\* pageCount = max(1, ceil(total / LIMIT)) and 1 <= page <= pageCount, page
\* being the requested page, and the listing was queried with LIMIT and
\* offset = (page - 1) * LIMIT.  A requested page that is valid and greater
\* than pageCount is answered with a redirect, never with data: to the same
\* query with page set to pageCount and the other parameters unchanged.
C24_DataResultsAreWithinThePages ==
    /\ loaderData.kind = "data" =>
          /\ loaderData.data.pageCount = PageCountOf(ListingCall)
          /\ loaderData.data.page = RequestedPage
          /\ 1 <= loaderData.data.page
          /\ loaderData.data.page <= loaderData.data.pageCount
          /\ ListingCall.query.limit = LimitOf(page)
          /\ ListingCall.query.offset = (loaderData.data.page - 1) * LimitOf(page)
    /\ (/\ loaderData.kind \in {"data", "redirect"}
        /\ RequestedPage > PageCountOf(ListingCall)) =>
          /\ loaderData.kind = "redirect"
          /\ PageEntries(loaderData.to) =
                <<<<"page", ToString(PageCountOf(ListingCall))>> >>
          /\ OtherParameters(loaderData.to) = OtherParameters(searchParams)

\* page 13 of a filtered listing of 7 pages was asked for and answered with a
\* redirect to page 7 of the same filter
C24_RedirectedToLastPage ==
    /\ searchParams = << <<"page", "13">>, <<"filter", "a">> >>
    /\ loaderData = RedirectTo(<< <<"page", "7">>, <<"filter", "a">> >>)
    /\ ListingCall.query.offset = 12 * LimitOf(page)

\* a step in which the browser follows the loader's redirect and the listing
\* answers what it answered to the redirecting request
FollowedWithSameTotal ==
    /\ loaderData.kind = "redirect"
    /\ searchParams' = loaderData.to
    /\ Len(calls') = Len(calls) + 1
    /\ calls'[Len(calls')].answer = calls[Len(calls)].answer

\* C25: when the row count is the same as for the redirecting request, the
\* request the loader redirected to is answered with data, the last page,
\* and not with another redirect: a valid listing request is answered with
\* data after at most one redirect.
C25_RedirectIsFollowedByData ==
    [][FollowedWithSameTotal =>
          /\ loaderData'.kind = "data"
          /\ loaderData'.data.page = loaderData'.data.pageCount]_vars

\* a request whose query named page twice was redirected, and the redirect,
\* followed with the row count unchanged, was answered with the last page
C25_LastPageAfterOneRedirect ==
    /\ Len(calls) = 2
    /\ calls[1].answer = calls[2].answer
    /\ calls[1].query.offset > calls[2].query.offset
    /\ loaderData.kind = "data"
    /\ loaderData.data.page = 7
    /\ searchParams = << <<"page", "7">> >>

(***************************************************************************)
(* C26: no call for form data that fails validation                        *)
(***************************************************************************)
\* the external-service and repository calls of the three actions
ActionApis ==
    {"banUser", "unbanUser", "impersonateUser", "createInvitation",
     "updateInvitationRole", "cancelInvitation", "signInMagicLink", "KV.get"}

\* C26: when the form data of a request to the users, invitations or login
\* action fails the action's schema, the action returns its error result,
\* success false with an error map, and has made none of its calls: no ban,
\* unban, impersonate, create-invitation, role update, cancel-invitation,
\* magic-link or key-value call is in the log of the request.
C26_NoCallOnFailedValidation ==
    (FailedValidation /\ page \in {"users", "invitations", "login"}) =>
        /\ response.kind = "data"
        /\ response.data.success = FALSE
        /\ "errorMap" \in DOMAIN response.data
        /\ \A k \in DOMAIN calls : calls[k].api \notin ActionApis

\* the login action was sent something that is no email address and
\* answered with the error of the email field
C26_LoginRejectedWithoutCall ==
    /\ page = "login"
    /\ FailedValidation
    /\ "email" \in DOMAIN formData
    /\ "email" \in DOMAIN response.data.errorMap.onSubmit.fields
    /\ calls = <<>>

(***************************************************************************)
(* C27: an invite that fails part-way keeps what it created                *)
(***************************************************************************)
\* the invite action of the last request was left by a rejected call
InviteRejected ==
    /\ page \in {"invitations", "invitationsLegacy"}
    /\ submissions > 0
    /\ SchemaIssues = <<>>
    /\ formData["intent"] = "invite"
    /\ response = Threw("APIError")

\* C27: when createInvitation, or the role update after it, rejects for the
\* k-th email of an invite, the log of the request holds the answered
\* createInvitation calls of the first k-1 emails in order, each followed by
\* at most its role update, then the calls for the k-th email ending with
\* the rejected one; no call is made for a later email and none cancels or
\* removes an invitation that was created.
C27_InviteStopsAtRejectionWithoutRollback ==
    InviteRejected =>
        LET emails == SplitTrimFilter(formData["emails"])
            k == Len(Creations)
        IN  /\ k >= 1 /\ k <= Len(emails)
            /\ \A j \in 1..k : Creations[j].email = emails[j]
            /\ \A j \in 1..(k - 1) : ~Creations[j].rejected
            /\ calls[Len(calls)].rejected
            /\ \A i \in 1..(Len(calls) - 1) : ~calls[i].rejected
            /\ \/ calls[Len(calls)] = Creations[k]
               \/ /\ calls[Len(calls)].api = "updateInvitationRole"
                  /\ calls[Len(calls) - 1] = Creations[k]
            /\ \A i \in DOMAIN calls :
                   calls[i].api \in {"createInvitation", "updateInvitationRole"}

\* of two invited emails the first got its invitation and the second was
\* rejected: the request failed and the first invitation stays
C27_FirstCreatedSecondRejected ==
    /\ InviteRejected
    /\ Len(calls) = 2
    /\ calls[1].api = "createInvitation" /\ calls[1].email = "a@a.com"
    /\ ~calls[1].rejected
    /\ calls[2].api = "createInvitation" /\ calls[2].email = "b@b.com"
    /\ calls[2].rejected

(***************************************************************************)
(* C28: the magic link in the result of the login action                   *)
(***************************************************************************)
\* the result of the last login request carries a magic link
MagicLinkDefined ==
    /\ response.kind = "data"
    /\ "magicLink" \in DOMAIN response.data
    /\ response.data.magicLink # Undefined

\* C28: the result of the login action carries a magic link only if
\* DEMO_MODE is "true", the form data passed validation and signInMagicLink
\* was answered with a status; the link is then the one read from the
\* key-value store.  When DEMO_MODE is not "true" the store is not read and
\* no result carries a magic link.
C28_MagicLinkOnlyInDemoMode ==
    (page = "login" /\ submissions > 0) =>
        /\ MagicLinkDefined =>
              /\ context.env.DEMO_MODE = "true"
              /\ SchemaIssues = <<>>
              /\ response.data.success
              /\ calls = <<Answered([api |-> "signInMagicLink",
                                     email |-> formData["email"]]),
                           Answered([api |-> "KV.get", key |-> "demo:magicLink"])>>
              /\ response.data.magicLink = context.env.KV
        /\ context.env.DEMO_MODE # "true" =>
              /\ ~MagicLinkDefined
              /\ \A k \in DOMAIN calls : calls[k].api # "KV.get"

\* outside demo mode a link was stored, the sign-in succeeded, and the result
\* reports success without the link
C28_SuccessWithoutLinkOutsideDemoMode ==
    /\ page = "login"
    /\ submissions > 0
    /\ context.env.DEMO_MODE = "false"
    /\ context.env.KV # Null
    /\ response = Returned([success |-> TRUE, magicLink |-> Undefined])

====
